---- MODULE Spec2Model ----
(***************************************************************************)
(* Verification model of athar-be: the 30-partition (juz) table and its    *)
(* resolver functions (src/data/juz-mapping.ts), the services that read    *)
(* the store (src/services/juz.service.ts, surah.service.ts and            *)
(* doa.service.ts) behind their controllers and the onResponse hook, and   *)
(* the import jobs that fill the store (scripts/seed-surah.ts, the         *)
(* commentary and the prayer import).                                      *)
(***************************************************************************)
EXTENDS Integers, Sequences, FiniteSets, TLC

(***************************************************************************)
(* Program constants and corpus data                                       *)
(***************************************************************************)

\* CONFIG.START_NUMBER / CONFIG.MAX_NUMBER of the import job: chapters 1..114
START_NUMBER == 1
MAX_NUMBER == 114

\* surah.jumlahAyat as served by the upstream corpus for chapters 1..114
\* (the value the import job stores as verseCount)
VerseCount ==
  << 7, 286, 200, 176, 120, 165, 206, 75, 129, 109, 123, 111,
     43, 52, 99, 128, 111, 110, 98, 135, 112, 78, 118, 64,
     77, 227, 93, 88, 69, 60, 34, 30, 73, 54, 45, 83,
     182, 88, 75, 85, 54, 53, 89, 59, 37, 35, 38, 29,
     18, 45, 60, 49, 62, 55, 78, 96, 29, 22, 24, 13,
     14, 11, 11, 18, 12, 12, 30, 52, 52, 44, 28, 28,
     20, 56, 40, 31, 50, 40, 46, 42, 29, 19, 36, 25,
     22, 17, 19, 26, 30, 20, 15, 21, 11, 8, 8, 19,
     5, 8, 8, 11, 11, 8, 3, 9, 5, 4, 7, 3,
     6, 3, 5, 4, 5, 6 >>

\* variant of juzMapping: juz 14 starts at verse 2 of chapter 15
juzMapping_gap ==
  << [juz |-> 1, start |-> [surah |-> 1, verse |-> 1], end |-> [surah |-> 2, verse |-> 141]],
     [juz |-> 2, start |-> [surah |-> 2, verse |-> 142], end |-> [surah |-> 2, verse |-> 252]],
     [juz |-> 3, start |-> [surah |-> 2, verse |-> 253], end |-> [surah |-> 3, verse |-> 92]],
     [juz |-> 4, start |-> [surah |-> 3, verse |-> 93], end |-> [surah |-> 4, verse |-> 23]],
     [juz |-> 5, start |-> [surah |-> 4, verse |-> 24], end |-> [surah |-> 4, verse |-> 147]],
     [juz |-> 6, start |-> [surah |-> 4, verse |-> 148], end |-> [surah |-> 5, verse |-> 81]],
     [juz |-> 7, start |-> [surah |-> 5, verse |-> 82], end |-> [surah |-> 6, verse |-> 110]],
     [juz |-> 8, start |-> [surah |-> 6, verse |-> 111], end |-> [surah |-> 7, verse |-> 87]],
     [juz |-> 9, start |-> [surah |-> 7, verse |-> 88], end |-> [surah |-> 8, verse |-> 40]],
     [juz |-> 10, start |-> [surah |-> 8, verse |-> 41], end |-> [surah |-> 9, verse |-> 92]],
     [juz |-> 11, start |-> [surah |-> 9, verse |-> 93], end |-> [surah |-> 11, verse |-> 5]],
     [juz |-> 12, start |-> [surah |-> 11, verse |-> 6], end |-> [surah |-> 12, verse |-> 52]],
     [juz |-> 13, start |-> [surah |-> 12, verse |-> 53], end |-> [surah |-> 14, verse |-> 52]],
     [juz |-> 14, start |-> [surah |-> 15, verse |-> 2], end |-> [surah |-> 16, verse |-> 128]],
     [juz |-> 15, start |-> [surah |-> 17, verse |-> 1], end |-> [surah |-> 18, verse |-> 74]],
     [juz |-> 16, start |-> [surah |-> 18, verse |-> 75], end |-> [surah |-> 20, verse |-> 135]],
     [juz |-> 17, start |-> [surah |-> 21, verse |-> 1], end |-> [surah |-> 22, verse |-> 78]],
     [juz |-> 18, start |-> [surah |-> 23, verse |-> 1], end |-> [surah |-> 25, verse |-> 20]],
     [juz |-> 19, start |-> [surah |-> 25, verse |-> 21], end |-> [surah |-> 27, verse |-> 55]],
     [juz |-> 20, start |-> [surah |-> 27, verse |-> 56], end |-> [surah |-> 29, verse |-> 45]],
     [juz |-> 21, start |-> [surah |-> 29, verse |-> 46], end |-> [surah |-> 33, verse |-> 30]],
     [juz |-> 22, start |-> [surah |-> 33, verse |-> 31], end |-> [surah |-> 36, verse |-> 27]],
     [juz |-> 23, start |-> [surah |-> 36, verse |-> 28], end |-> [surah |-> 39, verse |-> 31]],
     [juz |-> 24, start |-> [surah |-> 39, verse |-> 32], end |-> [surah |-> 41, verse |-> 46]],
     [juz |-> 25, start |-> [surah |-> 41, verse |-> 47], end |-> [surah |-> 45, verse |-> 37]],
     [juz |-> 26, start |-> [surah |-> 46, verse |-> 1], end |-> [surah |-> 51, verse |-> 30]],
     [juz |-> 27, start |-> [surah |-> 51, verse |-> 31], end |-> [surah |-> 57, verse |-> 29]],
     [juz |-> 28, start |-> [surah |-> 58, verse |-> 1], end |-> [surah |-> 66, verse |-> 12]],
     [juz |-> 29, start |-> [surah |-> 67, verse |-> 1], end |-> [surah |-> 77, verse |-> 50]],
     [juz |-> 30, start |-> [surah |-> 78, verse |-> 1], end |-> [surah |-> 114, verse |-> 6]] >>

\* the constant table juzMapping, in source order
juzMapping ==
  << [juz |-> 1, start |-> [surah |-> 1, verse |-> 1], end |-> [surah |-> 2, verse |-> 141]],
     [juz |-> 2, start |-> [surah |-> 2, verse |-> 142], end |-> [surah |-> 2, verse |-> 252]],
     [juz |-> 3, start |-> [surah |-> 2, verse |-> 253], end |-> [surah |-> 3, verse |-> 92]],
     [juz |-> 4, start |-> [surah |-> 3, verse |-> 93], end |-> [surah |-> 4, verse |-> 23]],
     [juz |-> 5, start |-> [surah |-> 4, verse |-> 24], end |-> [surah |-> 4, verse |-> 147]],
     [juz |-> 6, start |-> [surah |-> 4, verse |-> 148], end |-> [surah |-> 5, verse |-> 81]],
     [juz |-> 7, start |-> [surah |-> 5, verse |-> 82], end |-> [surah |-> 6, verse |-> 110]],
     [juz |-> 8, start |-> [surah |-> 6, verse |-> 111], end |-> [surah |-> 7, verse |-> 87]],
     [juz |-> 9, start |-> [surah |-> 7, verse |-> 88], end |-> [surah |-> 8, verse |-> 40]],
     [juz |-> 10, start |-> [surah |-> 8, verse |-> 41], end |-> [surah |-> 9, verse |-> 92]],
     [juz |-> 11, start |-> [surah |-> 9, verse |-> 93], end |-> [surah |-> 11, verse |-> 5]],
     [juz |-> 12, start |-> [surah |-> 11, verse |-> 6], end |-> [surah |-> 12, verse |-> 52]],
     [juz |-> 13, start |-> [surah |-> 12, verse |-> 53], end |-> [surah |-> 14, verse |-> 52]],
     [juz |-> 14, start |-> [surah |-> 15, verse |-> 1], end |-> [surah |-> 16, verse |-> 128]],
     [juz |-> 15, start |-> [surah |-> 17, verse |-> 1], end |-> [surah |-> 18, verse |-> 74]],
     [juz |-> 16, start |-> [surah |-> 18, verse |-> 75], end |-> [surah |-> 20, verse |-> 135]],
     [juz |-> 17, start |-> [surah |-> 21, verse |-> 1], end |-> [surah |-> 22, verse |-> 78]],
     [juz |-> 18, start |-> [surah |-> 23, verse |-> 1], end |-> [surah |-> 25, verse |-> 20]],
     [juz |-> 19, start |-> [surah |-> 25, verse |-> 21], end |-> [surah |-> 27, verse |-> 55]],
     [juz |-> 20, start |-> [surah |-> 27, verse |-> 56], end |-> [surah |-> 29, verse |-> 45]],
     [juz |-> 21, start |-> [surah |-> 29, verse |-> 46], end |-> [surah |-> 33, verse |-> 30]],
     [juz |-> 22, start |-> [surah |-> 33, verse |-> 31], end |-> [surah |-> 36, verse |-> 27]],
     [juz |-> 23, start |-> [surah |-> 36, verse |-> 28], end |-> [surah |-> 39, verse |-> 31]],
     [juz |-> 24, start |-> [surah |-> 39, verse |-> 32], end |-> [surah |-> 41, verse |-> 46]],
     [juz |-> 25, start |-> [surah |-> 41, verse |-> 47], end |-> [surah |-> 45, verse |-> 37]],
     [juz |-> 26, start |-> [surah |-> 46, verse |-> 1], end |-> [surah |-> 51, verse |-> 30]],
     [juz |-> 27, start |-> [surah |-> 51, verse |-> 31], end |-> [surah |-> 57, verse |-> 29]],
     [juz |-> 28, start |-> [surah |-> 58, verse |-> 1], end |-> [surah |-> 66, verse |-> 12]],
     [juz |-> 29, start |-> [surah |-> 67, verse |-> 1], end |-> [surah |-> 77, verse |-> 50]],
     [juz |-> 30, start |-> [surah |-> 78, verse |-> 1], end |-> [surah |-> 114, verse |-> 6]] >>

(***************************************************************************)
(* The resolver: getJuzByVerse and getJuzListBySurah                       *)
(***************************************************************************)

\* variant of isAfterStart: the start verse itself is excluded
isAfterStart_strict(surahNumber, verseNumber, start) ==
  \/ surahNumber > start.surah
  \/ (surahNumber = start.surah /\ verseNumber > start.verse)

\* isAfterStart of getJuzByVerse's loop body
isAfterStart(surahNumber, verseNumber, start) ==
  \/ surahNumber > start.surah
  \/ (surahNumber = start.surah /\ verseNumber >= start.verse)

\* variant of isBeforeEnd: the end verse itself is excluded
isBeforeEnd_strict(surahNumber, verseNumber, end) ==
  \/ surahNumber < end.surah
  \/ (surahNumber = end.surah /\ verseNumber < end.verse)

\* variant of isBeforeEnd: only the chapter is compared
isBeforeEnd_surahOnly(surahNumber, verseNumber, end) ==
  surahNumber <= end.surah

\* isBeforeEnd of getJuzByVerse's loop body
isBeforeEnd(surahNumber, verseNumber, end) ==
  \/ surahNumber < end.surah
  \/ (surahNumber = end.surah /\ verseNumber <= end.verse)

\* the for..of loop of getJuzByVerse from table index i on: the index of the
\* first row whose range holds the verse, or 0 when the loop runs off the table
RECURSIVE ScanJuz(_, _, _)
ScanJuz(surahNumber, verseNumber, i) ==
  IF i > Len(juzMapping) THEN 0
  ELSE IF /\ isAfterStart(surahNumber, verseNumber, juzMapping[i].start)
          /\ isBeforeEnd(surahNumber, verseNumber, juzMapping[i].end)
       THEN i
       ELSE ScanJuz(surahNumber, verseNumber, i + 1)

\* getJuzByVerse: the juz of the first matching row, else the 'return 1' default
getJuzByVerse(surahNumber, verseNumber) ==
  LET i == ScanJuz(surahNumber, verseNumber, 1)
  IN IF i = 0 THEN 1 ELSE juzMapping[i].juz

\* Array.prototype.sort((a, b) => a - b) applied to the members of a set
SortAsc(S) ==
  IF S = {} THEN << >>
  ELSE LET lo == CHOOSE x \in S : \A y \in S : x <= y
           hi == CHOOSE x \in S : \A y \in S : y <= x
           member(x) == x \in S
       IN SelectSeq([i \in 1 .. (hi - lo + 1) |-> lo + i - 1], member)

\* variant of getJuzListBySurah: the loop over the juz in between is missing
getJuzListBySurah_endsOnly(surahNumber, totalVerses) ==
  LET firstJuz == getJuzByVerse(surahNumber, 1)
      lastJuz == getJuzByVerse(surahNumber, totalVerses)
  IN SortAsc({firstJuz, lastJuz})

\* variant of getJuzListBySurah: the comparator is (a, b) => b - a
getJuzListBySurah_desc(surahNumber, totalVerses) ==
  LET firstJuz == getJuzByVerse(surahNumber, 1)
      lastJuz == getJuzByVerse(surahNumber, totalVerses)
      asc == SortAsc({firstJuz, lastJuz} \cup {j \in firstJuz .. lastJuz : TRUE})
  IN [i \in 1 .. Len(asc) |-> asc[Len(asc) + 1 - i]]

\* getJuzListBySurah: first and last verse's juz, every j between, sorted
getJuzListBySurah(surahNumber, totalVerses) ==
  LET firstJuz == getJuzByVerse(surahNumber, 1)
      lastJuz == getJuzByVerse(surahNumber, totalVerses)
      juzSet == {firstJuz, lastJuz} \cup {j \in firstJuz .. lastJuz : TRUE}
  IN SortAsc(juzSet)

(***************************************************************************)
(* State                                                                   *)
(***************************************************************************)

VARIABLES
  callSurah,     \* resolver call: the surahNumber argument
  callVerse,     \* resolver call: the verseNumber argument
  juzOut,        \* value returned by getJuzByVerse (0: not called yet)
  viaDefault,    \* TRUE when that value came from the 'return 1' after the loop
  juzListOut,    \* value returned by getJuzListBySurah (<< >>: not called yet)
  surahs,        \* table surahs: the stored chapter rows
  verses,        \* table verses: the stored verse rows
  seedPc,        \* import job: "idle" (not running), "fetch", "surah", "ayat"
                 \* of seedSurah, "tfetch", "tafsir" of seedTafsir, "doa" of seedDoa
  seedNumber,    \* import job: the loop variable (number, or id in seedDoa)
  seedIdx,       \* import job: position in the payload's list (surah.ayat,
                 \* data.tafsir), or consecutiveNotFound in seedDoa
  req,           \* the last request served: operation and arguments
  resp,          \* the value the service returned for it
  httpStatus,    \* the status code of the reply (0: no reply yet)
  upstream,      \* the data provider as the import job meets it (fixed)
  storage,       \* the database as the server meets it (fixed): whether a
                 \* read of a request may fail, whether analytics can be written
  tafsirs,       \* table tafsirs: the stored commentary rows
  doas,          \* table doas: the stored prayer rows
  analyticsHits, \* table analytics: the sum of hitCount over its rows
  fetcher,       \* a call of fetchSurahByNumber, fetchTafsirByNumber or
                 \* fetchDoaById under way: arguments, attempts made, result
  trackers,      \* the trackHit calls of the onResponse hook: where each is
  analytics,     \* table analytics as the trackHit calls write it: its rows
  dailyStats,    \* table daily_stats: its rows
  reader         \* a findSurahByJuz call followed read by read: its position
                 \* and what it has read so far

resolverVars == << callSurah, callVerse, juzOut, viaDefault, juzListOut >>
storeVars == << surahs, verses >>
seedVars == << seedPc, seedNumber, seedIdx >>
reqVars == << req, resp, httpStatus >>
envVars == << upstream, storage >>
sideVars == << tafsirs, doas, analyticsHits >>
auxVars == << fetcher, trackers, analytics, dailyStats, reader >>
vars == << resolverVars, storeVars, seedVars, reqVars, envVars, sideVars, auxVars >>

\* no upstream fetch, no trackHit call and no step-wise request is under way,
\* and the analytics tables are empty
AuxIdle ==
  /\ fetcher = [fn |-> "none"]
  /\ trackers = << >>
  /\ analytics = {}
  /\ dailyStats = {}
  /\ reader = [pc |-> "none"]

\* every (chapter, verse) pair of the corpus
ValidPairs == {p \in (START_NUMBER .. MAX_NUMBER) \X (1 .. 286) : p[2] <= VerseCount[p[1]]}

(***************************************************************************)
(* The upstream corpus as the import job sees it                           *)
(***************************************************************************)

\* the upstream serves chapters 1..MaxServedSurah and the last chapter; every
\* other fetch ends in null
MaxServedSurah == 2

ServedSurahs == (START_NUMBER .. MaxServedSurah) \cup {MAX_NUMBER}

\* a provider that answers for the chapters in ServedSurahs with a part of
\* their verses, while fetches and inserts may fail
PartialUpstream ==
  [served |-> ServedSurahs, sampled |-> TRUE, faulty |-> TRUE, varying |-> FALSE]

\* a provider that answers for every chapter with all its verses, and an
\* import during which nothing fails
CompleteUpstream ==
  [served |-> START_NUMBER .. MAX_NUMBER, sampled |-> FALSE, faulty |-> FALSE,
   varying |-> FALSE]

\* the upstream serves chapter 2 only, with the sampled verses; a fetch or an
\* insert may fail
SmallUpstream ==
  [served |-> {2}, sampled |-> TRUE, faulty |-> TRUE, varying |-> FALSE]

\* the upstream serves the last chapter only, with the sampled verses; a fetch
\* or an insert may fail, and the texts it serves for a chapter, a verse, a
\* commentary or a prayer may differ from one fetch to the next
VaryingUpstream ==
  [served |-> {MAX_NUMBER}, sampled |-> TRUE, faulty |-> TRUE, varying |-> TRUE]

\* the texts a payload may carry for one item (nama, teksArab, teks)
Texts == IF upstream.varying THEN {"x", "y"} ELSE {"x"}

\* a database whose reads succeed and whose analytics tables reject every
\* write (trackHit catches the error)
SoundStorage == [readFaults |-> FALSE, analyticsUp |-> FALSE]

\* a database where any read of a request may fail and analytics is writable
FaultyStorage == [readFaults |-> TRUE, analyticsUp |-> TRUE]

\* the verse numbers in surah.ayat of a chapter served in part: its first and
\* last verse and every verse of it that starts a juz
SampleVerses(c) ==
  {1, VerseCount[c]} \cup
  {juzMapping[i].start.verse : i \in {k \in 1 .. Len(juzMapping) : juzMapping[k].start.surah = c}}

\* surah.ayat of the payload for chapter c, in upstream order
Ayat(c) ==
  IF upstream.sampled THEN SortAsc(SampleVerses(c))
  ELSE [v \in 1 .. VerseCount[c] |-> v]

(***************************************************************************)
(* Specification of the resolver: every valid verse address is an input    *)
(***************************************************************************)

ResolverInit ==
  /\ \E p \in ValidPairs : callSurah = p[1] /\ callVerse = p[2]
  /\ juzOut = 0
  /\ viaDefault = FALSE
  /\ juzListOut = << >>
  /\ surahs = {}
  /\ verses = {}
  /\ seedPc = "idle"
  /\ seedNumber = START_NUMBER
  /\ seedIdx = 1
  /\ req = [op |-> "none"]
  /\ resp = [null |-> TRUE]
  /\ httpStatus = 0
  /\ upstream = PartialUpstream
  /\ storage = SoundStorage
  /\ tafsirs = {}
  /\ doas = {}
  /\ analyticsHits = 0
  /\ AuxIdle

\* one call getJuzByVerse(callSurah, callVerse)
CallGetJuzByVerse ==
  /\ juzOut = 0
  /\ juzOut' = getJuzByVerse(callSurah, callVerse)
  /\ viaDefault' = (ScanJuz(callSurah, callVerse, 1) = 0)
  /\ UNCHANGED << callSurah, callVerse, juzListOut, storeVars, seedVars, reqVars, envVars, sideVars, auxVars >>

\* one call getJuzListBySurah(callSurah, verse count of callSurah)
CallGetJuzListBySurah ==
  /\ juzListOut = << >>
  /\ juzListOut' = getJuzListBySurah(callSurah, VerseCount[callSurah])
  /\ UNCHANGED << callSurah, callVerse, juzOut, viaDefault, storeVars, seedVars, reqVars, envVars, sideVars, auxVars >>

ResolverNext == CallGetJuzByVerse \/ CallGetJuzListBySurah

ResolverSpec == ResolverInit /\ [][ResolverNext]_vars

(***************************************************************************)
(* The import job: seedSurah and seedAyatForSurah                          *)
(***************************************************************************)

\* the for loop of seedSurah moves on to the next number; the run ends after
\* MAX_NUMBER
SeedAdvance ==
  /\ seedNumber' = IF seedNumber < MAX_NUMBER THEN seedNumber + 1 ELSE START_NUMBER
  /\ seedPc' = IF seedNumber < MAX_NUMBER THEN "fetch" ELSE "idle"
  /\ seedIdx' = 1

\* seedSurah() starts: number = START_NUMBER
SeedStart ==
  /\ seedPc = "idle"
  /\ req.op = "none"
  /\ seedPc' = "fetch"
  /\ seedNumber' = START_NUMBER
  /\ seedIdx' = 1
  /\ UNCHANGED << resolverVars, storeVars, reqVars, envVars, sideVars, auxVars >>

\* fetchSurahByNumber(number): the payload, or null (not found, or every
\* attempt failed) and the loop continues
SeedFetch ==
  /\ seedPc = "fetch"
  /\ \/ /\ seedNumber \in upstream.served
        /\ seedPc' = "surah"
        /\ UNCHANGED << seedNumber, seedIdx >>
     \/ /\ upstream.faulty \/ seedNumber \notin upstream.served
        /\ SeedAdvance
  /\ UNCHANGED << resolverVars, storeVars, reqVars, envVars, sideVars, auxVars >>

\* variant of SeedSurahRow: an existing chapter row is rewritten from the
\* payload
SeedSurahRow_upsert ==
  /\ seedPc = "surah"
  /\ \/ /\ \E s \in surahs : s.number = seedNumber
        /\ \E nama \in Texts :
             surahs' = {s \in surahs : s.number # seedNumber} \cup
                         {[number |-> seedNumber, name |-> nama,
                           verseCount |-> VerseCount[seedNumber]]}
        /\ seedPc' = "ayat"
        /\ UNCHANGED << seedNumber, seedIdx >>
     \/ /\ ~ \E s \in surahs : s.number = seedNumber
        /\ \E nama \in Texts :
             surahs' = surahs \cup
                         {[number |-> seedNumber, name |-> nama,
                           verseCount |-> VerseCount[seedNumber]]}
        /\ seedPc' = "ayat"
        /\ UNCHANGED << seedNumber, seedIdx >>
     \/ /\ upstream.faulty
        /\ SeedAdvance
        /\ UNCHANGED surahs
  /\ UNCHANGED << resolverVars, verses, reqVars, envVars, sideVars, auxVars >>

\* seedSurah, the try block: an existing chapter is skipped, a new one is
\* created; then its ayat are seeded. A failing findUnique or create is caught
\* and the loop continues.
SeedSurahRow ==
  /\ seedPc = "surah"
  /\ \/ /\ \E s \in surahs : s.number = seedNumber
        /\ seedPc' = "ayat"
        /\ UNCHANGED << surahs, seedNumber, seedIdx >>
     \/ /\ ~ \E s \in surahs : s.number = seedNumber
        /\ \E nama \in Texts :
             surahs' = surahs \cup
                         {[number |-> seedNumber, name |-> nama,
                           verseCount |-> VerseCount[seedNumber]]}
        /\ seedPc' = "ayat"
        /\ UNCHANGED << seedNumber, seedIdx >>
     \/ /\ upstream.faulty
        /\ SeedAdvance
        /\ UNCHANGED surahs
  /\ UNCHANGED << resolverVars, verses, reqVars, envVars, sideVars, auxVars >>

\* variant of SeedAyat: a new verse is tagged with the juz of the first verse
\* of its chapter
SeedAyat_firstVerseJuz ==
  /\ seedPc = "ayat"
  /\ LET ayat == Ayat(seedNumber)
         nomorAyat == ayat[seedIdx]
         existingVerse == {v \in verses : v.surahNumber = seedNumber /\ v.number = nomorAyat}
     IN /\ IF existingVerse # {}
           THEN UNCHANGED verses
           ELSE \/ \E teksArab \in Texts :
                     verses' = verses \cup
                       {[surahNumber |-> seedNumber, number |-> nomorAyat,
                         text |-> teksArab,
                         juz |-> getJuzByVerse(seedNumber, 1)]}
                \/ upstream.faulty /\ UNCHANGED verses
        /\ IF seedIdx < Len(ayat)
           THEN /\ seedIdx' = seedIdx + 1
                /\ UNCHANGED << seedPc, seedNumber >>
           ELSE SeedAdvance
  /\ UNCHANGED << resolverVars, surahs, reqVars, envVars, sideVars, auxVars >>

\* seedAyatForSurah, one iteration of the loop over surah.ayat: an existing
\* verse is skipped, a new one is created with juz = getJuzByVerse; a failing
\* create is caught and counted as skipped
SeedAyat ==
  /\ seedPc = "ayat"
  /\ LET ayat == Ayat(seedNumber)
         nomorAyat == ayat[seedIdx]
         existingVerse == {v \in verses : v.surahNumber = seedNumber /\ v.number = nomorAyat}
     IN /\ IF existingVerse # {}
           THEN UNCHANGED verses
           ELSE \/ \E teksArab \in Texts :
                     verses' = verses \cup
                       {[surahNumber |-> seedNumber, number |-> nomorAyat,
                         text |-> teksArab,
                         juz |-> getJuzByVerse(seedNumber, nomorAyat)]}
                \/ upstream.faulty /\ UNCHANGED verses
        /\ IF seedIdx < Len(ayat)
           THEN /\ seedIdx' = seedIdx + 1
                /\ UNCHANGED << seedPc, seedNumber >>
           ELSE SeedAdvance
  /\ UNCHANGED << resolverVars, surahs, reqVars, envVars, sideVars, auxVars >>

(***************************************************************************)
(* The commentary import job: seedTafsir and seedTafsirForSurah            *)
(***************************************************************************)

\* data.tafsir of the payload for chapter c: the ayat numbers that carry a
\* commentary, in upstream order
Tafsir(c) == Ayat(c)

\* the for loop of seedTafsir moves on: number++ or the loop ends
SeedTafsirAdvance ==
  /\ seedNumber' = IF seedNumber < MAX_NUMBER THEN seedNumber + 1 ELSE START_NUMBER
  /\ seedPc' = IF seedNumber < MAX_NUMBER THEN "tfetch" ELSE "idle"
  /\ seedIdx' = 1

\* seedTafsir() starts: number = START_NUMBER
SeedTafsirStart ==
  /\ seedPc = "idle"
  /\ req.op = "none"
  /\ seedPc' = "tfetch"
  /\ seedNumber' = START_NUMBER
  /\ seedIdx' = 1
  /\ UNCHANGED << resolverVars, storeVars, reqVars, envVars, sideVars, auxVars >>

\* fetchTafsirByNumber(number): the payload, or null and the loop continues;
\* a payload with an empty tafsir list seeds nothing
SeedTafsirFetch ==
  /\ seedPc = "tfetch"
  /\ \/ /\ seedNumber \in upstream.served
        /\ IF Len(Tafsir(seedNumber)) = 0
           THEN SeedTafsirAdvance
           ELSE /\ seedPc' = "tafsir"
                /\ UNCHANGED << seedNumber, seedIdx >>
     \/ /\ upstream.faulty \/ seedNumber \notin upstream.served
        /\ SeedTafsirAdvance
  /\ UNCHANGED << resolverVars, storeVars, reqVars, envVars, sideVars, auxVars >>

\* variant of SeedTafsirForSurah: no lookup of an existing commentary, and the
\* table has no unique index on (surahNumber, verseNumber)
SeedTafsirForSurah_noLookup ==
  /\ seedPc = "tafsir"
  /\ LET list == Tafsir(seedNumber)
         ayat == list[seedIdx]
         existingTafsir == {t \in tafsirs : t.surahNumber = seedNumber /\ t.verseNumber = ayat}
         verseRow == {v \in verses : v.surahNumber = seedNumber /\ v.number = ayat}
     IN /\ IF verseRow = {}
           THEN UNCHANGED tafsirs
           ELSE \/ \E teks \in Texts :
                     tafsirs' = tafsirs \cup
                       {[surahNumber |-> seedNumber, verseNumber |-> ayat, text |-> teks]}
                \/ upstream.faulty /\ UNCHANGED tafsirs
        /\ IF seedIdx < Len(list)
           THEN /\ seedIdx' = seedIdx + 1
                /\ UNCHANGED << seedPc, seedNumber >>
           ELSE SeedTafsirAdvance
  /\ UNCHANGED << resolverVars, storeVars, reqVars, envVars, doas, analyticsHits, auxVars >>

\* seedTafsirForSurah, one iteration of the loop over data.tafsir: an existing
\* commentary is skipped, a new one is created; the create is rejected when
\* no verse row has the key (foreign key tafsirs -> verses) and a failing
\* create is caught and counted as skipped
SeedTafsirForSurah ==
  /\ seedPc = "tafsir"
  /\ LET list == Tafsir(seedNumber)
         ayat == list[seedIdx]
         existingTafsir == {t \in tafsirs : t.surahNumber = seedNumber /\ t.verseNumber = ayat}
         verseRow == {v \in verses : v.surahNumber = seedNumber /\ v.number = ayat}
     IN /\ IF existingTafsir # {}
           THEN UNCHANGED tafsirs
           ELSE IF verseRow = {}
           THEN UNCHANGED tafsirs
           ELSE \/ \E teks \in Texts :
                     tafsirs' = tafsirs \cup
                       {[surahNumber |-> seedNumber, verseNumber |-> ayat, text |-> teks]}
                \/ upstream.faulty /\ UNCHANGED tafsirs
        /\ IF seedIdx < Len(list)
           THEN /\ seedIdx' = seedIdx + 1
                /\ UNCHANGED << seedPc, seedNumber >>
           ELSE SeedTafsirAdvance
  /\ UNCHANGED << resolverVars, storeVars, reqVars, envVars, doas, analyticsHits, auxVars >>

(***************************************************************************)
(* The prayer import job: seedDoa                                          *)
(***************************************************************************)

START_ID == 1
MAX_ID == 227
MaxConsecutiveNotFound == 10

\* the elements of a sequence
Range(s) == {s[i] : i \in 1 .. Len(s)}

\* the prayers the upstream serves, by id: name and description together are
\* the content; ids 1 and 2 carry the same content
DoaContent == << "a", "a", "b" >>
DoaIds == 1 .. Len(DoaContent)

\* the contents a fetch of prayer id may carry
DoaContents(id) == IF upstream.varying THEN Range(DoaContent) ELSE {DoaContent[id]}

\* seedDoa() starts: id = START_ID, consecutiveNotFound = 0
SeedDoaStart ==
  /\ seedPc = "idle"
  /\ req.op = "none"
  /\ seedPc' = "doa"
  /\ seedNumber' = START_ID
  /\ seedIdx' = 0
  /\ UNCHANGED << resolverVars, storeVars, reqVars, envVars, sideVars, auxVars >>

\* the for loop of seedDoa ends: by break, or after MAX_ID
SeedDoaEnd ==
  /\ seedPc' = "idle"
  /\ seedNumber' = START_NUMBER
  /\ seedIdx' = 1

\* variant of SeedDoa: only the apiId is looked up, and the table has no
\* unique index on (name, description)
SeedDoa_apiIdOnly ==
  /\ seedPc = "doa"
  /\ LET id == seedNumber
         continue(consecutiveNotFound) ==
           IF id < MAX_ID
           THEN /\ seedNumber' = id + 1
                /\ seedIdx' = consecutiveNotFound
                /\ UNCHANGED seedPc
           ELSE SeedDoaEnd
     IN \/ /\ upstream.faulty \/ id \notin DoaIds
           /\ IF seedIdx + 1 >= MaxConsecutiveNotFound
              THEN SeedDoaEnd
              ELSE continue(seedIdx + 1)
           /\ UNCHANGED doas
        \/ /\ id \in DoaIds
           /\ \E content \in DoaContents(id) :
                LET existingByApiId == {d \in doas : d.apiId = id}
                    existingByContent == {d \in doas : d.content = content}
                IN IF existingByApiId # {} THEN UNCHANGED doas
                   ELSE doas' = doas \cup {[apiId |-> id, content |-> content]}
           /\ continue(0)
        \/ /\ id \in DoaIds
           /\ upstream.faulty
           /\ UNCHANGED doas
           /\ continue(0)
  /\ UNCHANGED << resolverVars, storeVars, reqVars, envVars, tafsirs, analyticsHits, auxVars >>

\* seedDoa, one iteration of the loop over ids: a missing prayer counts
\* towards the break after 10 in a row; a prayer whose apiId or whose
\* (name, description) is already stored is skipped; else it is created. A
\* failing lookup or create is caught and the loop continues.
SeedDoa ==
  /\ seedPc = "doa"
  /\ LET id == seedNumber
         continue(consecutiveNotFound) ==
           IF id < MAX_ID
           THEN /\ seedNumber' = id + 1
                /\ seedIdx' = consecutiveNotFound
                /\ UNCHANGED seedPc
           ELSE SeedDoaEnd
     IN \/ /\ upstream.faulty \/ id \notin DoaIds
           /\ IF seedIdx + 1 >= MaxConsecutiveNotFound
              THEN SeedDoaEnd
              ELSE continue(seedIdx + 1)
           /\ UNCHANGED doas
        \/ /\ id \in DoaIds
           /\ \E content \in DoaContents(id) :
                LET existingByApiId == {d \in doas : d.apiId = id}
                    existingByContent == {d \in doas : d.content = content}
                IN IF existingByApiId # {} THEN UNCHANGED doas
                   ELSE IF existingByContent # {} THEN UNCHANGED doas
                   ELSE doas' = doas \cup {[apiId |-> id, content |-> content]}
           /\ continue(0)
        \/ /\ id \in DoaIds
           /\ upstream.faulty
           /\ UNCHANGED doas
           /\ continue(0)
  /\ UNCHANGED << resolverVars, storeVars, reqVars, envVars, tafsirs, analyticsHits, auxVars >>

(***************************************************************************)
(* The store queries of JuzService                                         *)
(***************************************************************************)

\* prisma.surah.findUnique({ where: { number } }): the row, or none
SurahFindUnique(number) == {s \in surahs : s.number = number}

\* prisma.verse.groupBy({ by: ["surahNumber"], where: { juz },
\* orderBy: { surahNumber: "asc" } }): the chapter numbers of the groups
SurahNumbersInJuz(juz) ==
  SortAsc({v.surahNumber : v \in {w \in verses : w.juz = juz}})

\* the same groupBy with orderBy: { surahNumber: "desc" }
SurahNumbersInJuzDesc(juz) ==
  LET asc == SurahNumbersInJuz(juz)
  IN [i \in 1 .. Len(asc) |-> asc[Len(asc) + 1 - i]]

\* Array.prototype.indexOf: zero-based position of x in s, or -1
IndexOf(s, x) ==
  IF \E i \in 1 .. Len(s) : s[i] = x
  THEN (CHOOSE i \in 1 .. Len(s) : s[i] = x /\ \A k \in 1 .. (i - 1) : s[k] # x) - 1
  ELSE -1

\* a truthy optional number of the query: present and not 0
Truthy(opt) == opt.has /\ opt.val # 0

\* prisma.verse.findMany({ where: verseWhere, orderBy: { number: "asc" } }):
\* the numbers of the rows found, in order
VerseFindMany(surahNumber, juzNumber, query) ==
  SortAsc({v.number : v \in
    {w \in verses :
       /\ w.surahNumber = surahNumber
       /\ w.juz = juzNumber
       /\ Truthy(query.fromVerse) => w.number >= query.fromVerse.val
       /\ Truthy(query.toVerse) => w.number <= query.toVerse.val}})

(***************************************************************************)
(* JuzService.findByNumber and JuzService.findSurahByJuz                   *)
(***************************************************************************)

\* variant of VerseRanges: min, max and count are taken over every stored
\* verse of the chapter, whatever its juz
VerseRanges_wholeChapter(number) ==
  LET nums == SurahNumbersInJuz(number)
      rows(c) == {v \in verses : v.surahNumber = c}
  IN [i \in 1 .. Len(nums) |->
        [surahNumber |-> nums[i],
         min |-> CHOOSE m \in {v.number : v \in rows(nums[i])} :
                   \A v \in rows(nums[i]) : m <= v.number,
         max |-> CHOOSE m \in {v.number : v \in rows(nums[i])} :
                   \A v \in rows(nums[i]) : m >= v.number,
         count |-> Cardinality(rows(nums[i]))]]

\* prisma.verse.groupBy by surahNumber where juz = number with _min, _max,
\* _count, ascending by surahNumber
VerseRanges(number) ==
  LET nums == SurahNumbersInJuz(number)
      rows(c) == {v \in verses : v.juz = number /\ v.surahNumber = c}
  IN [i \in 1 .. Len(nums) |->
        [surahNumber |-> nums[i],
         min |-> CHOOSE m \in {v.number : v \in rows(nums[i])} :
                   \A v \in rows(nums[i]) : m <= v.number,
         max |-> CHOOSE m \in {v.number : v \in rows(nums[i])} :
                   \A v \in rows(nums[i]) : m >= v.number,
         count |-> Cardinality(rows(nums[i]))]]

\* verseRanges.reduce((sum, r) => sum + r._count.id, 0)
RECURSIVE SumCounts(_)
SumCounts(ranges) ==
  IF ranges = << >> THEN 0 ELSE ranges[1].count + SumCounts(Tail(ranges))

\* juzMapping.find((j) => j.juz === number): the rows found (none: undefined)
JuzFind(number) ==
  {juzMapping[i] : i \in {k \in 1 .. Len(juzMapping) : juzMapping[k].juz = number}}

\* variant of prevJuzOf: the previous juz is looked up with number + 1
prevJuzOf_plusOne(number) ==
  IF number > 1 THEN {j.juz : j \in JuzFind(number + 1)} ELSE {}

\* findByNumber, prevJuz: {} for null or undefined, else the juz found
prevJuzOf(number) ==
  IF number > 1 THEN {j.juz : j \in JuzFind(number - 1)} ELSE {}

\* findByNumber, nextJuz: {} for null or undefined, else the juz found
nextJuzOf(number) ==
  IF number < 30 THEN {j.juz : j \in JuzFind(number + 1)} ELSE {}

\* JuzService.findByNumber(number)
findByNumber(number) ==
  LET juzInfo == {i \in 1 .. Len(juzMapping) : juzMapping[i].juz = number}
  IN IF juzInfo = {} THEN [null |-> TRUE]
     ELSE
       LET info == juzMapping[CHOOSE i \in juzInfo : \A k \in juzInfo : i <= k]
           verseRanges == VerseRanges(number)
           surahNumbers == {verseRanges[i].surahNumber : i \in 1 .. Len(verseRanges)}
           found == SortAsc({s.number : s \in {t \in surahs : t.number \in surahNumbers}})
           rangeOf(c) == verseRanges[CHOOSE i \in 1 .. Len(verseRanges) :
                                       verseRanges[i].surahNumber = c]
           prevJuz == prevJuzOf(number)
           nextJuz == nextJuzOf(number)
       IN [null |-> FALSE,
           number |-> number,
           start |-> info.start,
           end |-> info.end,
           totalVerses |-> SumCounts(verseRanges),
           surahs |-> [i \in 1 .. Len(found) |->
                         [number |-> found[i],
                          versesInJuz |-> [start |-> rangeOf(found[i]).min,
                                           end |-> rangeOf(found[i]).max],
                          totalVersesInJuz |-> rangeOf(found[i]).count]],
           prevInfo |-> {[number |-> n] : n \in prevJuz},
           nextInfo |-> {[number |-> n] : n \in nextJuz}]

\* variant of prevInfoOf: the previous juz's chapters are read ascending
prevInfoOf_asc(juzNumber, surahNumbers, currentIndex) ==
  LET prevJuz == IF currentIndex > 0 THEN juzNumber
                 ELSE IF juzNumber > 1 THEN juzNumber - 1 ELSE juzNumber
      prevJuzSurahs == SurahNumbersInJuz(juzNumber - 1)
      prevSurah == IF currentIndex > 0
                   THEN SurahFindUnique(surahNumbers[(currentIndex - 1) + 1])
                   ELSE IF juzNumber > 1
                        THEN IF Len(prevJuzSurahs) > 0
                             THEN SurahFindUnique(prevJuzSurahs[1])
                             ELSE {}
                        ELSE {}
  IN {[juz |-> prevJuz, surah |-> s.number] : s \in prevSurah}

\* variant of prevInfoOf: the previous juz is looked up only for juzNumber > 2
prevInfoOf_from2(juzNumber, surahNumbers, currentIndex) ==
  LET prevJuz == IF currentIndex > 0 THEN juzNumber
                 ELSE IF juzNumber > 2 THEN juzNumber - 1 ELSE juzNumber
      prevJuzSurahs == SurahNumbersInJuzDesc(juzNumber - 1)
      prevSurah == IF currentIndex > 0
                   THEN SurahFindUnique(surahNumbers[(currentIndex - 1) + 1])
                   ELSE IF juzNumber > 2
                        THEN IF Len(prevJuzSurahs) > 0
                             THEN SurahFindUnique(prevJuzSurahs[1])
                             ELSE {}
                        ELSE {}
  IN {[juz |-> prevJuz, surah |-> s.number] : s \in prevSurah}

\* findSurahByJuz, "Determine prev surah": {} for null, else the one record
\* { juz: prevJuz, surah: number of prevSurah }
prevInfoOf(juzNumber, surahNumbers, currentIndex) ==
  LET prevJuz == IF currentIndex > 0 THEN juzNumber
                 ELSE IF juzNumber > 1 THEN juzNumber - 1 ELSE juzNumber
      prevJuzSurahs == SurahNumbersInJuzDesc(juzNumber - 1)
      prevSurah == IF currentIndex > 0
                   THEN SurahFindUnique(surahNumbers[(currentIndex - 1) + 1])
                   ELSE IF juzNumber > 1
                        THEN IF Len(prevJuzSurahs) > 0
                             THEN SurahFindUnique(prevJuzSurahs[1])
                             ELSE {}
                        ELSE {}
  IN {[juz |-> prevJuz, surah |-> s.number] : s \in prevSurah}

\* variant of nextInfoOf: nextJuz is not moved on to juzNumber + 1
nextInfoOf_sameJuz(juzNumber, surahNumbers, currentIndex) ==
  LET nextJuz == juzNumber
      nextJuzSurahs == SurahNumbersInJuz(juzNumber + 1)
      nextSurah == IF currentIndex < Len(surahNumbers) - 1
                   THEN SurahFindUnique(surahNumbers[(currentIndex + 1) + 1])
                   ELSE IF juzNumber < 30
                        THEN IF Len(nextJuzSurahs) > 0
                             THEN SurahFindUnique(nextJuzSurahs[1])
                             ELSE {}
                        ELSE {}
  IN {[juz |-> nextJuz, surah |-> s.number] : s \in nextSurah}

\* variant of nextInfoOf: the next juz is looked up only for juzNumber < 29
nextInfoOf_before29(juzNumber, surahNumbers, currentIndex) ==
  LET nextJuz == IF currentIndex < Len(surahNumbers) - 1 THEN juzNumber
                 ELSE IF juzNumber < 29 THEN juzNumber + 1 ELSE juzNumber
      nextJuzSurahs == SurahNumbersInJuz(juzNumber + 1)
      nextSurah == IF currentIndex < Len(surahNumbers) - 1
                   THEN SurahFindUnique(surahNumbers[(currentIndex + 1) + 1])
                   ELSE IF juzNumber < 29
                        THEN IF Len(nextJuzSurahs) > 0
                             THEN SurahFindUnique(nextJuzSurahs[1])
                             ELSE {}
                        ELSE {}
  IN {[juz |-> nextJuz, surah |-> s.number] : s \in nextSurah}

\* findSurahByJuz, "Determine next surah": {} for null, else the one record
\* { juz: nextJuz, surah: number of nextSurah }
nextInfoOf(juzNumber, surahNumbers, currentIndex) ==
  LET nextJuz == IF currentIndex < Len(surahNumbers) - 1 THEN juzNumber
                 ELSE IF juzNumber < 30 THEN juzNumber + 1 ELSE juzNumber
      nextJuzSurahs == SurahNumbersInJuz(juzNumber + 1)
      nextSurah == IF currentIndex < Len(surahNumbers) - 1
                   THEN SurahFindUnique(surahNumbers[(currentIndex + 1) + 1])
                   ELSE IF juzNumber < 30
                        THEN IF Len(nextJuzSurahs) > 0
                             THEN SurahFindUnique(nextJuzSurahs[1])
                             ELSE {}
                        ELSE {}
  IN {[juz |-> nextJuz, surah |-> s.number] : s \in nextSurah}

\* JuzService.findSurahByJuz(juzNumber, surahNumber, query)
findSurahByJuz(juzNumber, surahNumber, query) ==
  LET juzInfo == {i \in 1 .. Len(juzMapping) : juzMapping[i].juz = juzNumber}
      surah == SurahFindUnique(surahNumber)
      found == VerseFindMany(surahNumber, juzNumber, query)
  IN IF juzInfo = {} THEN [null |-> TRUE]
     ELSE IF surah = {} THEN [null |-> TRUE]
     ELSE IF Len(found) = 0 THEN [null |-> TRUE]
     ELSE
       LET surahNumbers == SurahNumbersInJuz(juzNumber)
           currentIndex == IndexOf(surahNumbers, surahNumber)
       IN [null |-> FALSE,
           juz |-> juzNumber,
           surah |-> surahNumber,
           verses |-> found,
           prevInfo |-> prevInfoOf(juzNumber, surahNumbers, currentIndex),
           nextInfo |-> nextInfoOf(juzNumber, surahNumbers, currentIndex)]

\* variant of findSurahTafsirByJuz: an empty versesInJuz does not end the call
findSurahTafsirByJuz_noEmptyCheck(juzNumber, surahNumber, query) ==
  LET juzInfo == JuzFind(juzNumber)
      surah == SurahFindUnique(surahNumber)
      verseNumbers == VerseFindMany(surahNumber, juzNumber, query)
      tafsir == SortAsc({t.verseNumber : t \in
                  {u \in tafsirs :
                     /\ u.surahNumber = surahNumber
                     /\ \E i \in 1 .. Len(verseNumbers) : verseNumbers[i] = u.verseNumber}})
  IN IF juzInfo = {} THEN [null |-> TRUE]
     ELSE IF surah = {} THEN [null |-> TRUE]
     ELSE
       LET surahNumbersInJuz == SurahNumbersInJuz(juzNumber)
           currentIndex == IndexOf(surahNumbersInJuz, surahNumber)
       IN [null |-> FALSE,
           juz |-> juzNumber,
           surah |-> surahNumber,
           tafsir |-> tafsir,
           prevInfo |-> prevInfoOf(juzNumber, surahNumbersInJuz, currentIndex),
           nextInfo |-> nextInfoOf(juzNumber, surahNumbersInJuz, currentIndex)]

\* variant of findSurahTafsirByJuz: the commentary of the whole chapter is
\* returned
findSurahTafsirByJuz_wholeChapter(juzNumber, surahNumber, query) ==
  LET juzInfo == JuzFind(juzNumber)
      surah == SurahFindUnique(surahNumber)
      verseNumbers == VerseFindMany(surahNumber, juzNumber, query)
      tafsir == SortAsc({t.verseNumber : t \in
                  {u \in tafsirs : u.surahNumber = surahNumber}})
  IN IF juzInfo = {} THEN [null |-> TRUE]
     ELSE IF surah = {} THEN [null |-> TRUE]
     ELSE IF Len(verseNumbers) = 0 THEN [null |-> TRUE]
     ELSE
       LET surahNumbersInJuz == SurahNumbersInJuz(juzNumber)
           currentIndex == IndexOf(surahNumbersInJuz, surahNumber)
       IN [null |-> FALSE,
           juz |-> juzNumber,
           surah |-> surahNumber,
           tafsir |-> tafsir,
           prevInfo |-> prevInfoOf(juzNumber, surahNumbersInJuz, currentIndex),
           nextInfo |-> nextInfoOf(juzNumber, surahNumbersInJuz, currentIndex)]

\* JuzService.findSurahTafsirByJuz(juzNumber, surahNumber, query)
findSurahTafsirByJuz(juzNumber, surahNumber, query) ==
  LET juzInfo == JuzFind(juzNumber)
      surah == SurahFindUnique(surahNumber)
      verseNumbers == VerseFindMany(surahNumber, juzNumber, query)
      tafsir == SortAsc({t.verseNumber : t \in
                  {u \in tafsirs :
                     /\ u.surahNumber = surahNumber
                     /\ \E i \in 1 .. Len(verseNumbers) : verseNumbers[i] = u.verseNumber}})
  IN IF juzInfo = {} THEN [null |-> TRUE]
     ELSE IF surah = {} THEN [null |-> TRUE]
     ELSE IF Len(verseNumbers) = 0 THEN [null |-> TRUE]
     ELSE
       LET surahNumbersInJuz == SurahNumbersInJuz(juzNumber)
           currentIndex == IndexOf(surahNumbersInJuz, surahNumber)
       IN [null |-> FALSE,
           juz |-> juzNumber,
           surah |-> surahNumber,
           tafsir |-> tafsir,
           prevInfo |-> prevInfoOf(juzNumber, surahNumbersInJuz, currentIndex),
           nextInfo |-> nextInfoOf(juzNumber, surahNumbersInJuz, currentIndex)]

\* JuzService.findAll(): one entry per row of juzMapping
findAll ==
  [null |-> FALSE,
   data |-> [i \in 1 .. Len(juzMapping) |->
               LET juz == juzMapping[i]
                   inSurahMap(c) == SurahFindUnique(c) # {}
               IN [number |-> juz.juz,
                   start |-> juz.start,
                   end |-> juz.end,
                   totalVerses |-> Cardinality({v \in verses : v.juz = juz.juz}),
                   surahs |-> SelectSeq(SurahNumbersInJuz(juz.juz), inSurahMap)]]]

\* SurahService.findByNumber(number, query)
surahFindByNumber(number, query) ==
  LET surah == SurahFindUnique(number)
      found == SortAsc({v.number : v \in
                 {w \in verses :
                    /\ w.surahNumber = number
                    /\ Truthy(query.fromVerse) => w.number >= query.fromVerse.val
                    /\ Truthy(query.toVerse) => w.number <= query.toVerse.val}})
  IN IF surah = {} THEN [null |-> TRUE]
     ELSE [null |-> FALSE,
           number |-> number,
           verses |-> found,
           prevInfo |-> IF number > 1
                        THEN {s.number : s \in SurahFindUnique(number - 1)} ELSE {},
           nextInfo |-> IF number < 114
                        THEN {s.number : s \in SurahFindUnique(number + 1)} ELSE {}]

\* DoaService.findByApiId(apiId)
doaFindByApiId(apiId) ==
  LET doa == {d \in doas : d.apiId = apiId}
      lower == {d.apiId : d \in {e \in doas : e.apiId < apiId}}
      higher == {d.apiId : d \in {e \in doas : e.apiId > apiId}}
  IN IF doa = {} THEN [null |-> TRUE]
     ELSE [null |-> FALSE,
           apiId |-> apiId,
           prevInfo |-> {m \in lower : \A x \in lower : x <= m},
           nextInfo |-> {m \in higher : \A x \in higher : m <= x}]

(***************************************************************************)
(* The storage reads a call issues when none of them fails, in the order   *)
(* of the awaits                                                           *)
(***************************************************************************)

\* "Determine prev surah" and "Determine next surah" of findSurahByJuz and
\* findSurahTafsirByJuz
NavigationReads(juzNumber, surahNumber) ==
  LET surahNumbers == SurahNumbersInJuz(juzNumber)
      currentIndex == IndexOf(surahNumbers, surahNumber)
      prevReads == IF currentIndex > 0 THEN 1
                   ELSE IF juzNumber > 1
                        THEN IF Len(SurahNumbersInJuzDesc(juzNumber - 1)) > 0 THEN 2 ELSE 1
                        ELSE 0
      nextReads == IF currentIndex < Len(surahNumbers) - 1 THEN 1
                   ELSE IF juzNumber < 30
                        THEN IF Len(SurahNumbersInJuz(juzNumber + 1)) > 0 THEN 2 ELSE 1
                        ELSE 0
  IN prevReads + nextReads

ReadsOfFindAll == 3

ReadsOfFindByNumber(number) == IF JuzFind(number) = {} THEN 0 ELSE 2

ReadsOfFindSurahByJuz(juzNumber, surahNumber, query) ==
  IF JuzFind(juzNumber) = {} THEN 0
  ELSE IF SurahFindUnique(surahNumber) = {} THEN 1
  ELSE IF Len(VerseFindMany(surahNumber, juzNumber, query)) = 0 THEN 2
  ELSE 3 + NavigationReads(juzNumber, surahNumber)

ReadsOfFindSurahTafsirByJuz(juzNumber, surahNumber, query) ==
  IF JuzFind(juzNumber) = {} THEN 0
  ELSE IF SurahFindUnique(surahNumber) = {} THEN 1
  ELSE IF Len(VerseFindMany(surahNumber, juzNumber, query)) = 0 THEN 2
  ELSE 4 + NavigationReads(juzNumber, surahNumber)

ReadsOfSurahFindByNumber(number) ==
  IF SurahFindUnique(number) = {} THEN 1
  ELSE 2 + (IF number > 1 THEN 1 ELSE 0) + (IF number < 114 THEN 1 ELSE 0)

ReadsOfDoaFindByApiId(apiId) == IF {d \in doas : d.apiId = apiId} = {} THEN 1 ELSE 3

(***************************************************************************)
(* Requests                                                                *)
(***************************************************************************)

\* an optional number of a query string
Absent == [has |-> FALSE, val |-> 0]
Given(n) == [has |-> TRUE, val |-> n]

\* the request inputs explored: chapters served upstream and one that is not,
\* the juz their payload verses fall in, and a few verse filters
ReqSurahs ==
  IF upstream.sampled THEN upstream.served \cup {MaxServedSurah + 1}
  ELSE START_NUMBER .. MAX_NUMBER

ReqJuzs == UNION {{getJuzByVerse(c, v) : v \in SampleVerses(c)} : c \in ReqSurahs}

\* the query without a verse filter
NoFilter == [fromVerse |-> Absent, toVerse |-> Absent]

FromVerses == {Absent, Given(2), Given(253)}
ToVerses == {Absent, Given(0), Given(252)}
ReqQueries ==
  IF upstream.sampled
  THEN {[fromVerse |-> f, toVerse |-> t] : f \in FromVerses, t \in ToVerses}
  ELSE {NoFilter}

\* the read that fails in a call: 0 for none, else its position among the
\* reads the call issues
FailPoints(reads) == IF storage.readFaults THEN 0 .. reads ELSE {0}

\* what the service call yields when a read has thrown
Threw == [threw |-> TRUE]

\* variant of controllerStatus: an exception of the service is answered like
\* a missing resource
controllerStatus_notFound(threw, data) ==
  IF threw THEN 404 ELSE IF data.null THEN 404 ELSE 200

\* the handlers of the controllers: catch -> 500, null -> 404, else success
controllerStatus(threw, data) ==
  IF threw THEN 500 ELSE IF data.null THEN 404 ELSE 200

\* the server takes a request: no import job is running and the previous
\* request has ended
Ready == seedPc = "idle" /\ req.op = "none"

\* a handler runs: the service call with its reads, then the reply
Handle(request, reads, data) ==
  /\ \E failAt \in FailPoints(reads) :
       /\ req' = [request EXCEPT !.failAt = failAt]
       /\ resp' = IF failAt # 0 THEN Threw ELSE data
       /\ httpStatus' = controllerStatus(failAt # 0, data)
  /\ UNCHANGED << resolverVars, storeVars, seedVars, envVars, sideVars, auxVars >>

\* GET /juz
ReqFindAll ==
  /\ Ready
  /\ Handle([op |-> "findAll", failAt |-> 0], ReadsOfFindAll, findAll)

\* GET /juz/:number
ReqFindByNumber ==
  /\ Ready
  /\ \E number \in 1 .. 30 :
       Handle([op |-> "findByNumber", number |-> number, failAt |-> 0],
              ReadsOfFindByNumber(number), findByNumber(number))

\* GET /juz/:number/surah/:surahNumber
ReqFindSurahByJuz ==
  /\ Ready
  /\ \E number \in ReqJuzs, surahNumber \in ReqSurahs, query \in ReqQueries :
       Handle([op |-> "findSurahByJuz", number |-> number,
               surahNumber |-> surahNumber, query |-> query, failAt |-> 0],
              ReadsOfFindSurahByJuz(number, surahNumber, query),
              findSurahByJuz(number, surahNumber, query))

\* GET /juz/:number/surah/:surahNumber/tafsir
ReqFindSurahTafsirByJuz ==
  /\ Ready
  /\ \E number \in ReqJuzs, surahNumber \in ReqSurahs, query \in ReqQueries :
       Handle([op |-> "findSurahTafsirByJuz", number |-> number,
               surahNumber |-> surahNumber, query |-> query, failAt |-> 0],
              ReadsOfFindSurahTafsirByJuz(number, surahNumber, query),
              findSurahTafsirByJuz(number, surahNumber, query))

\* GET /surah/:number
ReqSurahFindByNumber ==
  /\ Ready
  /\ \E number \in ReqSurahs, query \in ReqQueries :
       Handle([op |-> "surahFindByNumber", number |-> number, query |-> query,
               failAt |-> 0],
              ReadsOfSurahFindByNumber(number), surahFindByNumber(number, query))

\* GET /doa/:apiId
ReqDoaFindByApiId ==
  /\ Ready
  /\ \E apiId \in START_ID .. (Len(DoaContent) + 1) :
       Handle([op |-> "doaFindByApiId", apiId |-> apiId, failAt |-> 0],
              ReadsOfDoaFindByApiId(apiId), doaFindByApiId(apiId))

\* Math.ceil(totalItems / limit) for totalItems >= 0 and limit >= 1; variant:
\* the quotient is rounded down
ceilDiv_floor(totalItems, limit) == totalItems \div limit

\* Math.ceil(totalItems / limit) for totalItems >= 0 and limit >= 1
ceilDiv(totalItems, limit) ==
  IF totalItems % limit = 0 THEN totalItems \div limit
  ELSE (totalItems \div limit) + 1

\* the rows findMany({orderBy, skip, take}) returns of an ordered result
SkipTake(ordered, skip, take) ==
  IF skip >= Len(ordered) THEN << >>
  ELSE SubSeq(ordered, skip + 1,
              IF skip + take < Len(ordered) THEN skip + take ELSE Len(ordered))

\* pagination meta of the list services
PaginationMeta(page, limit, totalItems) ==
  LET totalPages == ceilDiv(totalItems, limit)
  IN [currentPage |-> page,
      totalPages |-> totalPages,
      totalItems |-> totalItems,
      itemsPerPage |-> limit,
      hasNextPage |-> page < totalPages,
      hasPrevPage |-> page > 1]

\* variant of juzBySurah: one entry per chapter, the juz of its lowest stored
\* verse
juzBySurah_firstOnly(surahNumber) ==
  LET rows == {v \in verses : v.surahNumber = surahNumber}
  IN SortAsc({v.juz : v \in {w \in rows : \A x \in rows : w.number <= x.number}})

\* verse.groupBy({by: [surahNumber, juz], orderBy: [surahNumber asc, juz asc]})
\* collected per chapter: the distinct juz of the chapter's stored verses
juzBySurah(surahNumber) ==
  SortAsc({v.juz : v \in {w \in verses : w.surahNumber = surahNumber}})

\* SurahService.findAll(query) without a search text
surahFindAll(query) ==
  LET page == IF query.page.has THEN query.page.val ELSE 1
      limit == IF query.limit.has THEN query.limit.val ELSE 114
      skip == (page - 1) * limit
      totalItems == Cardinality(surahs)
      numbers == SkipTake(SortAsc({s.number : s \in surahs}), skip, limit)
      row(n) == CHOOSE s \in surahs : s.number = n
  IN [null |-> FALSE,
      data |-> [i \in 1 .. Len(numbers) |->
                  [number |-> numbers[i],
                   verseCount |-> row(numbers[i]).verseCount,
                   juz |-> juzBySurah(numbers[i])]],
      meta |-> PaginationMeta(page, limit, totalItems)]

\* DoaService.findAll(query) without a search text or group
doaFindAll(query) ==
  LET page == IF query.page.has THEN query.page.val ELSE 1
      limit == IF query.limit.has THEN query.limit.val ELSE 20
      skip == (page - 1) * limit
      totalItems == Cardinality(doas)
      apiIds == SkipTake(SortAsc({d.apiId : d \in doas}), skip, limit)
  IN [null |-> FALSE,
      data |-> [i \in 1 .. Len(apiIds) |-> [apiId |-> apiIds[i]]],
      meta |-> PaginationMeta(page, limit, totalItems)]

\* reads of SurahService.findAll: count, findMany, groupBy
ReadsOfSurahFindAll == 3

\* reads of DoaService.findAll: count, findMany
ReadsOfDoaFindAll == 2

\* the page and limit parameters requests carry
Pages == {Absent, Given(1), Given(2), Given(3), Given(115)}
SurahLimits == {Absent, Given(1), Given(50)}
DoaLimits == {Absent, Given(1), Given(2)}

\* GET /surah
ReqSurahFindAll ==
  /\ Ready
  /\ \E page \in Pages, limit \in SurahLimits :
       LET query == [page |-> page, limit |-> limit]
       IN Handle([op |-> "surahFindAll", query |-> query, failAt |-> 0],
                 ReadsOfSurahFindAll, surahFindAll(query))

\* GET /doa
ReqDoaFindAll ==
  /\ Ready
  /\ \E page \in Pages, limit \in DoaLimits :
       LET query == [page |-> page, limit |-> limit]
       IN Handle([op |-> "doaFindAll", query |-> query, failAt |-> 0],
                 ReadsOfDoaFindAll, doaFindAll(query))

\* a path parameter after z.coerce.number(): a number kept in half units, or
\* NaN for a text that is no number
Half(twice) == [nan |-> FALSE, twice |-> twice]
NotANumber == [nan |-> TRUE, twice |-> 0]
isInteger(x) == ~x.nan /\ x.twice % 2 = 0
valueOf(x) == x.twice \div 2

\* z.coerce.number().min(lo).max(hi)
inRange(x, lo, hi) == ~x.nan /\ 2 * lo <= x.twice /\ x.twice <= 2 * hi

juzParamsSchema(params) == inRange(params.number, 1, 30)
juzSurahParamsSchema(params) ==
  /\ inRange(params.number, 1, 30)
  /\ inRange(params.surahNumber, START_NUMBER, MAX_NUMBER)

\* the path parameters requests carry: NaN, 0, 1, 1.5, 3, 31 for the juz and
\* NaN, 0, 1.5, 2, 2.5, 115 for the chapter
RawJuzs == {NotANumber, Half(0), Half(2), Half(3), Half(6), Half(62)}
RawSurahs == {NotANumber, Half(0), Half(3), Half(4), Half(5), Half(230)}

\* the route's validation fails: the error handler replies with the error's
\* status code
Reject(request) ==
  /\ req' = request
  /\ resp' = Threw
  /\ httpStatus' = 400
  /\ UNCHANGED << resolverVars, storeVars, seedVars, envVars, sideVars, auxVars >>

\* the handler ran without a storage fault and the service threw or returned
Reply(request, threw, data) ==
  /\ req' = request
  /\ resp' = IF threw THEN Threw ELSE data
  /\ httpStatus' = controllerStatus(threw, data)
  /\ UNCHANGED << resolverVars, storeVars, seedVars, envVars, sideVars, auxVars >>

\* prisma.surah.findUnique({where: {number}}) with a number that is no
\* integer: the client rejects the argument, or no row matches
FindUniqueNonInteger(request) ==
  \/ Reply(request, TRUE, [null |-> TRUE])
  \/ Reply(request, FALSE, [null |-> TRUE])

\* GET /juz/:number through the route's validation
RouteFindByNumber ==
  /\ Ready
  /\ \E number \in RawJuzs :
       LET params == [number |-> number]
           request == [op |-> "routeFindByNumber", params |-> params, failAt |-> 0]
       IN IF ~juzParamsSchema(params) THEN Reject(request)
          ELSE IF ~isInteger(number) THEN Reply(request, FALSE, [null |-> TRUE])
          ELSE Handle(request, ReadsOfFindByNumber(valueOf(number)),
                      findByNumber(valueOf(number)))

\* GET /juz/:number/surah/:surahNumber through the route's validation
RouteFindSurahByJuz ==
  /\ Ready
  /\ \E number \in RawJuzs, surahNumber \in RawSurahs :
       LET params == [number |-> number, surahNumber |-> surahNumber]
           request == [op |-> "routeFindSurahByJuz", params |-> params, failAt |-> 0]
       IN IF ~juzSurahParamsSchema(params) THEN Reject(request)
          ELSE IF ~isInteger(number) THEN Reply(request, FALSE, [null |-> TRUE])
          ELSE IF ~isInteger(surahNumber) THEN FindUniqueNonInteger(request)
          ELSE Handle(request,
                      ReadsOfFindSurahByJuz(valueOf(number), valueOf(surahNumber), NoFilter),
                      findSurahByJuz(valueOf(number), valueOf(surahNumber), NoFilter))

\* GET /juz/:number/surah/:surahNumber/tafsir through the route's validation
RouteFindSurahTafsirByJuz ==
  /\ Ready
  /\ \E number \in RawJuzs, surahNumber \in RawSurahs :
       LET params == [number |-> number, surahNumber |-> surahNumber]
           request == [op |-> "routeFindSurahTafsirByJuz", params |-> params, failAt |-> 0]
       IN IF ~juzSurahParamsSchema(params) THEN Reject(request)
          ELSE IF ~isInteger(number) THEN Reply(request, FALSE, [null |-> TRUE])
          ELSE IF ~isInteger(surahNumber) THEN FindUniqueNonInteger(request)
          ELSE Handle(request,
                      ReadsOfFindSurahTafsirByJuz(valueOf(number), valueOf(surahNumber), NoFilter),
                      findSurahTafsirByJuz(valueOf(number), valueOf(surahNumber), NoFilter))

MaxHits == 1

\* variant of ReqEnd: the hook's write also adds a row to table doas
ReqEnd_writesDoas ==
  /\ req.op # "none"
  /\ req' = [op |-> "none"]
  /\ resp' = [null |-> TRUE]
  /\ httpStatus' = 0
  /\ \/ /\ storage.analyticsUp
        /\ analyticsHits < MaxHits
        /\ analyticsHits' = analyticsHits + 1
        /\ doas' = doas \cup {[apiId |-> 0, content |-> req.op]}
     \/ UNCHANGED << analyticsHits, doas >>
  /\ UNCHANGED << resolverVars, storeVars, seedVars, envVars, tafsirs, auxVars >>

\* the reply has been sent: the onResponse hook calls trackHit, which adds
\* one to the hitCount of the endpoint's analytics row, or fails and
\* swallows the error; the handler has returned
ReqEnd ==
  /\ req.op # "none"
  /\ req' = [op |-> "none"]
  /\ resp' = [null |-> TRUE]
  /\ httpStatus' = 0
  /\ \/ /\ storage.analyticsUp
        /\ analyticsHits < MaxHits
        /\ analyticsHits' = analyticsHits + 1
     \/ UNCHANGED analyticsHits
  /\ UNCHANGED << resolverVars, storeVars, seedVars, envVars, tafsirs, doas, auxVars >>

\* ---------------------------------------------------------------------------
\* Upstream fetch with retry (fetchSurahByNumber, fetchTafsirByNumber,
\* fetchDoaById)
\* ---------------------------------------------------------------------------

MAX_RETRIES == 3

FetchFns == {"fetchSurahByNumber", "fetchTafsirByNumber", "fetchDoaById"}
FetchNumbers == {START_NUMBER, 2, 3, MAX_NUMBER}

\* what one attempt meets: fetch rejects, the status is not OK or the body is
\* no JSON ("throw"); the body says not found or carries no data
\* ("notFound"); the body carries the data ("data")
Outcomes == {"throw", "notFound", "data"}

\* fetchX(number): the call starts with retries = CONFIG.MAX_RETRIES
FetchCall ==
  /\ fetcher.fn = "none"
  /\ \E fn \in FetchFns, number \in FetchNumbers :
       fetcher' = [fn |-> fn, number |-> number, retries |-> MAX_RETRIES,
                   attempts |-> 0, last |-> "none", result |-> "pending"]
  /\ UNCHANGED << resolverVars, storeVars, seedVars, reqVars, envVars, sideVars,
                  trackers, analytics, dailyStats, reader >>

\* variant of FetchAttempt: a not-found body is retried like a thrown error
FetchAttempt_retryNotFound ==
  /\ fetcher.fn # "none"
  /\ fetcher.result = "pending"
  /\ \E outcome \in Outcomes :
       LET tried == [fetcher EXCEPT !.attempts = @ + 1, !.last = outcome]
       IN fetcher' =
            IF outcome = "data" THEN [tried EXCEPT !.result = "data"]
            ELSE IF fetcher.retries > 0 THEN [tried EXCEPT !.retries = @ - 1]
            ELSE [tried EXCEPT !.result = "null"]
  /\ UNCHANGED << resolverVars, storeVars, seedVars, reqVars, envVars, sideVars,
                  trackers, analytics, dailyStats, reader >>

\* one pass through the body of fetchX: the try block returns the data or
\* null, or throws; the catch block waits and calls fetchX(number,
\* retries - 1) while retries > 0, and returns null otherwise
FetchAttempt ==
  /\ fetcher.fn # "none"
  /\ fetcher.result = "pending"
  /\ \E outcome \in Outcomes :
       LET tried == [fetcher EXCEPT !.attempts = @ + 1, !.last = outcome]
       IN fetcher' =
            IF outcome = "data" THEN [tried EXCEPT !.result = "data"]
            ELSE IF outcome = "notFound" THEN [tried EXCEPT !.result = "null"]
            ELSE IF fetcher.retries > 0 THEN [tried EXCEPT !.retries = @ - 1]
            ELSE [tried EXCEPT !.result = "null"]
  /\ UNCHANGED << resolverVars, storeVars, seedVars, reqVars, envVars, sideVars,
                  trackers, analytics, dailyStats, reader >>

\* the caller has taken the value returned
FetchReturn ==
  /\ fetcher.fn # "none"
  /\ fetcher.result # "pending"
  /\ fetcher' = [fn |-> "none"]
  /\ UNCHANGED << resolverVars, storeVars, seedVars, reqVars, envVars, sideVars,
                  trackers, analytics, dailyStats, reader >>

\* ---------------------------------------------------------------------------
\* The onResponse hook and AnalyticsService.trackHit, statement by statement
\* ---------------------------------------------------------------------------

MaxTrackers == 3

Endpoints == {"/juz", "/surah"}
SentStatuses == {200, 404}
Today == "today"

\* the reply of a request has been sent: the hook calls trackHit(endpoint,
\* method) without awaiting it
HookOnResponse ==
  /\ Len(trackers) < MaxTrackers
  /\ \E endpoint \in Endpoints, sent \in SentStatuses :
       trackers' = Append(trackers, [endpoint |-> endpoint, method |-> "GET",
                                     sent |-> sent, pc |-> "upsert"])
  /\ UNCHANGED << resolverVars, storeVars, seedVars, reqVars, envVars, sideVars,
                  fetcher, analytics, dailyStats, reader >>

\* the analytics rows of a key
AnalyticsRows(endpoint, method) ==
  {r \in analytics : r.endpoint = endpoint /\ r.method = method}

\* the write of prisma.analytics.upsert on the rows of the key: update
\* {hitCount: {increment: 1}}, create {endpoint, method, hitCount: 1}
Incremented(rows) == {[r EXCEPT !.hitCount = @ + 1] : r \in rows}
Created(endpoint, method) == {[endpoint |-> endpoint, method |-> method, hitCount |-> 1]}

\* prisma.analytics.upsert is issued: the database runs it as one statement,
\* or the client first looks the row up and then updates or creates
AnalyticsUpsert ==
  \E i \in 1 .. Len(trackers) :
    LET t == trackers[i]
        rows == AnalyticsRows(t.endpoint, t.method)
    IN /\ t.pc = "upsert"
       /\ \/ /\ analytics' = IF rows = {} THEN analytics \cup Created(t.endpoint, t.method)
                             ELSE (analytics \ rows) \cup Incremented(rows)
             /\ trackers' = [trackers EXCEPT ![i].pc = "daily"]
          \/ /\ trackers' = [trackers EXCEPT ![i].pc = IF rows = {} THEN "create" ELSE "update"]
             /\ UNCHANGED analytics
       /\ UNCHANGED << resolverVars, storeVars, seedVars, reqVars, envVars, sideVars,
                       fetcher, dailyStats, reader >>

\* the write that follows the lookup: the update adds one to hitCount in the
\* database; the create inserts the row, and is refused by the unique index
\* analytics_endpoint_method_key when another call has created the row
\* meanwhile: the error is caught and logged by trackHit
AnalyticsWrite ==
  \E i \in 1 .. Len(trackers) :
    LET t == trackers[i]
        rows == AnalyticsRows(t.endpoint, t.method)
    IN /\ t.pc \in {"create", "update"}
       /\ IF t.pc = "update"
          THEN /\ analytics' = (analytics \ rows) \cup Incremented(rows)
               /\ trackers' = [trackers EXCEPT ![i].pc = "daily"]
          ELSE IF rows # {}
          THEN /\ UNCHANGED analytics
               /\ trackers' = [trackers EXCEPT ![i].pc = "failed"]
          ELSE /\ analytics' = analytics \cup Created(t.endpoint, t.method)
               /\ trackers' = [trackers EXCEPT ![i].pc = "daily"]
       /\ UNCHANGED << resolverVars, storeVars, seedVars, reqVars, envVars, sideVars,
                       fetcher, dailyStats, reader >>

\* prisma.dailyStats.upsert({where: {date: today}}) is issued, as one
\* statement or as a lookup
DailyStatsUpsert ==
  \E i \in 1 .. Len(trackers) :
    /\ trackers[i].pc = "daily"
    /\ \/ /\ dailyStats' = IF dailyStats = {} THEN {[date |-> Today, totalHits |-> 1]}
                           ELSE {[r EXCEPT !.totalHits = @ + 1] : r \in dailyStats}
          /\ trackers' = [trackers EXCEPT ![i].pc = "done"]
       \/ /\ trackers' = [trackers EXCEPT ![i].pc = IF dailyStats = {} THEN "dailyCreate"
                                                    ELSE "dailyUpdate"]
          /\ UNCHANGED dailyStats
    /\ UNCHANGED << resolverVars, storeVars, seedVars, reqVars, envVars, sideVars,
                    fetcher, analytics, reader >>

\* the write that follows the lookup of the daily row; the create is refused
\* by the unique index daily_stats_date_key when the row exists meanwhile
DailyStatsWrite ==
  \E i \in 1 .. Len(trackers) :
    /\ trackers[i].pc \in {"dailyCreate", "dailyUpdate"}
    /\ IF trackers[i].pc = "dailyUpdate"
       THEN /\ dailyStats' = {[r EXCEPT !.totalHits = @ + 1] : r \in dailyStats}
            /\ trackers' = [trackers EXCEPT ![i].pc = "done"]
       ELSE IF dailyStats # {}
       THEN /\ UNCHANGED dailyStats
            /\ trackers' = [trackers EXCEPT ![i].pc = "failed"]
       ELSE /\ dailyStats' = {[date |-> Today, totalHits |-> 1]}
            /\ trackers' = [trackers EXCEPT ![i].pc = "done"]
    /\ UNCHANGED << resolverVars, storeVars, seedVars, reqVars, envVars, sideVars,
                    fetcher, analytics, reader >>

\* ---------------------------------------------------------------------------
\* JuzService.findSurahByJuz, await by await, beside a running import
\* ---------------------------------------------------------------------------

\* the upstream serves chapters 1 and 2, with faults
PairUpstream ==
  [served |-> {START_NUMBER, 2}, sampled |-> TRUE, faulty |-> TRUE, varying |-> FALSE]

ReaderJuzs == {1, 2}
ReaderSurahs == {START_NUMBER, 2}

\* the call has returned value: null, or the result object
ReaderDone(isNull) == [reader EXCEPT !.pc = "done", !.null = isNull]

\* findSurahByJuz(juzNumber, surahNumber, {}) is called: juzMapping.find
ReaderCall ==
  /\ reader.pc = "none"
  /\ \E juzNumber \in ReaderJuzs, surahNumber \in ReaderSurahs :
       reader' = [pc |-> IF JuzFind(juzNumber) = {} THEN "done" ELSE "surah",
                  null |-> TRUE,
                  juz |-> juzNumber, surah |-> surahNumber, query |-> NoFilter,
                  found |-> << >>, surahNumbers |-> << >>, currentIndex |-> -1,
                  candidate |-> 0, prevInfo |-> {}, nextInfo |-> {}]
  /\ UNCHANGED << resolverVars, storeVars, seedVars, reqVars, envVars, sideVars,
                  fetcher, trackers, analytics, dailyStats >>

\* await prisma.surah.findUnique({where: {number: surahNumber}})
ReaderSurah ==
  /\ reader.pc = "surah"
  /\ reader' = IF SurahFindUnique(reader.surah) = {} THEN ReaderDone(TRUE)
               ELSE [reader EXCEPT !.pc = "verses"]
  /\ UNCHANGED << resolverVars, storeVars, seedVars, reqVars, envVars, sideVars,
                  fetcher, trackers, analytics, dailyStats >>

\* await prisma.verse.findMany({where: verseWhere, orderBy: {number: "asc"}})
ReaderVerses ==
  /\ reader.pc = "verses"
  /\ LET found == VerseFindMany(reader.surah, reader.juz, reader.query)
     IN reader' = IF Len(found) = 0 THEN ReaderDone(TRUE)
                  ELSE [reader EXCEPT !.pc = "groups", !.found = found]
  /\ UNCHANGED << resolverVars, storeVars, seedVars, reqVars, envVars, sideVars,
                  fetcher, trackers, analytics, dailyStats >>

\* variant of ReaderGroups: the chapters of the juz are read in descending
\* order
ReaderGroups_desc ==
  /\ reader.pc = "groups"
  /\ LET surahNumbers == SurahNumbersInJuzDesc(reader.juz)
     IN reader' = [reader EXCEPT !.pc = "prev",
                                 !.surahNumbers = surahNumbers,
                                 !.currentIndex = IndexOf(surahNumbers, reader.surah)]
  /\ UNCHANGED << resolverVars, storeVars, seedVars, reqVars, envVars, sideVars,
                  fetcher, trackers, analytics, dailyStats >>

\* await prisma.verse.groupBy({by: ["surahNumber"], where: {juz: juzNumber},
\* orderBy: {surahNumber: "asc"}}), then surahNumbers.indexOf(surahNumber)
ReaderGroups ==
  /\ reader.pc = "groups"
  /\ LET surahNumbers == SurahNumbersInJuz(reader.juz)
     IN reader' = [reader EXCEPT !.pc = "prev",
                                 !.surahNumbers = surahNumbers,
                                 !.currentIndex = IndexOf(surahNumbers, reader.surah)]
  /\ UNCHANGED << resolverVars, storeVars, seedVars, reqVars, envVars, sideVars,
                  fetcher, trackers, analytics, dailyStats >>

\* the rows a findUnique of the navigation returns, as prevInfo / nextInfo
NavInfo(juz, number) == {[juz |-> juz, surah |-> s.number] : s \in SurahFindUnique(number)}

\* "Determine prev surah": the findUnique of the chapter before in the same
\* juz, or the groupBy of the juz before
ReaderPrev ==
  /\ reader.pc = "prev"
  /\ reader' =
       IF reader.currentIndex > 0
       THEN [reader EXCEPT !.pc = "next",
                           !.prevInfo = NavInfo(reader.juz,
                                                reader.surahNumbers[(reader.currentIndex - 1) + 1])]
       ELSE IF reader.juz > 1
       THEN LET prevJuzSurahs == SurahNumbersInJuzDesc(reader.juz - 1)
            IN IF Len(prevJuzSurahs) > 0
               THEN [reader EXCEPT !.pc = "prevRow", !.candidate = prevJuzSurahs[1]]
               ELSE [reader EXCEPT !.pc = "next"]
       ELSE [reader EXCEPT !.pc = "next"]
  /\ UNCHANGED << resolverVars, storeVars, seedVars, reqVars, envVars, sideVars,
                  fetcher, trackers, analytics, dailyStats >>

\* the findUnique of the last chapter of the juz before
ReaderPrevRow ==
  /\ reader.pc = "prevRow"
  /\ reader' = [reader EXCEPT !.pc = "next",
                              !.prevInfo = NavInfo(reader.juz - 1, reader.candidate)]
  /\ UNCHANGED << resolverVars, storeVars, seedVars, reqVars, envVars, sideVars,
                  fetcher, trackers, analytics, dailyStats >>

\* "Determine next surah": the findUnique of the chapter after in the same
\* juz, or the groupBy of the juz after; then the result is returned
ReaderNext ==
  /\ reader.pc = "next"
  /\ reader' =
       IF reader.currentIndex < Len(reader.surahNumbers) - 1
       THEN [ReaderDone(FALSE) EXCEPT
               !.nextInfo = NavInfo(reader.juz,
                                    reader.surahNumbers[(reader.currentIndex + 1) + 1])]
       ELSE IF reader.juz < 30
       THEN LET nextJuzSurahs == SurahNumbersInJuz(reader.juz + 1)
            IN IF Len(nextJuzSurahs) > 0
               THEN [reader EXCEPT !.pc = "nextRow", !.candidate = nextJuzSurahs[1]]
               ELSE ReaderDone(FALSE)
       ELSE ReaderDone(FALSE)
  /\ UNCHANGED << resolverVars, storeVars, seedVars, reqVars, envVars, sideVars,
                  fetcher, trackers, analytics, dailyStats >>

\* the findUnique of the first chapter of the juz after; the result is
\* returned
ReaderNextRow ==
  /\ reader.pc = "nextRow"
  /\ reader' = [ReaderDone(FALSE) EXCEPT
                  !.nextInfo = NavInfo(reader.juz + 1, reader.candidate)]
  /\ UNCHANGED << resolverVars, storeVars, seedVars, reqVars, envVars, sideVars,
                  fetcher, trackers, analytics, dailyStats >>

\* the controller has replied
ReaderReturn ==
  /\ reader.pc = "done"
  /\ reader' = [pc |-> "none"]
  /\ UNCHANGED << resolverVars, storeVars, seedVars, reqVars, envVars, sideVars,
                  fetcher, trackers, analytics, dailyStats >>

(***************************************************************************)
(* Specification of the store: import runs, and requests between them      *)
(***************************************************************************)

Init ==
  /\ callSurah = START_NUMBER
  /\ callVerse = 1
  /\ juzOut = 0
  /\ viaDefault = FALSE
  /\ juzListOut = << >>
  /\ surahs = {}
  /\ verses = {}
  /\ seedPc = "idle"
  /\ seedNumber = START_NUMBER
  /\ seedIdx = 1
  /\ req = [op |-> "none"]
  /\ resp = [null |-> TRUE]
  /\ httpStatus = 0
  /\ upstream = PartialUpstream
  /\ storage = SoundStorage
  /\ tafsirs = {}
  /\ doas = {}
  /\ analyticsHits = 0
  /\ AuxIdle

Next ==
  \/ SeedStart
  \/ SeedFetch
  \/ SeedSurahRow
  \/ SeedAyat
  \/ ReqFindByNumber
  \/ ReqFindSurahByJuz
  \/ ReqEnd

Spec == Init /\ [][Next]_vars

(***************************************************************************)
(* Specification of the service over a completely imported store: the      *)
(* import ran to its end against an upstream that serves every chapter     *)
(* with every verse, and no fetch or insert failed                         *)
(***************************************************************************)

\* the rows prisma.surah.create has written when the loop has passed MAX_NUMBER
ImportedSurahs ==
  {[number |-> c, name |-> "x", verseCount |-> VerseCount[c]] :
     c \in START_NUMBER .. MAX_NUMBER}

\* the rows prisma.verse.create has written, one per ayat of every chapter
ImportedVerses ==
  UNION {{[surahNumber |-> c, number |-> v, text |-> "x", juz |-> getJuzByVerse(c, v)] :
            v \in 1 .. VerseCount[c]} : c \in START_NUMBER .. MAX_NUMBER}

FullInit ==
  /\ callSurah = START_NUMBER
  /\ callVerse = 1
  /\ juzOut = 0
  /\ viaDefault = FALSE
  /\ juzListOut = << >>
  /\ surahs = ImportedSurahs
  /\ verses = ImportedVerses
  /\ seedPc = "idle"
  /\ seedNumber = START_NUMBER
  /\ seedIdx = 1
  /\ req = [op |-> "none"]
  /\ resp = [null |-> TRUE]
  /\ httpStatus = 0
  /\ upstream = CompleteUpstream
  /\ storage = SoundStorage
  /\ tafsirs = {}
  /\ doas = {}
  /\ analyticsHits = 0
  /\ AuxIdle

FullNext ==
  \/ ReqFindByNumber
  \/ ReqFindSurahByJuz
  \/ ReqEnd

FullSpec == FullInit /\ [][FullNext]_vars

(***************************************************************************)
(* Specification of the server and the three import jobs: the chapter,     *)
(* commentary and prayer imports run one after another, and between runs   *)
(* requests are served by a database whose reads may fail and whose        *)
(* analytics tables are written by the onResponse hook                     *)
(***************************************************************************)

ApiInit ==
  /\ callSurah = START_NUMBER
  /\ callVerse = 1
  /\ juzOut = 0
  /\ viaDefault = FALSE
  /\ juzListOut = << >>
  /\ surahs = {}
  /\ verses = {}
  /\ seedPc = "idle"
  /\ seedNumber = START_NUMBER
  /\ seedIdx = 1
  /\ req = [op |-> "none"]
  /\ resp = [null |-> TRUE]
  /\ httpStatus = 0
  /\ upstream = SmallUpstream
  /\ storage = FaultyStorage
  /\ tafsirs = {}
  /\ doas = {}
  /\ analyticsHits = 0
  /\ AuxIdle

ApiNext ==
  \/ SeedStart
  \/ SeedFetch
  \/ SeedSurahRow
  \/ SeedAyat
  \/ SeedTafsirStart
  \/ SeedTafsirFetch
  \/ SeedTafsirForSurah
  \/ SeedDoaStart
  \/ SeedDoa
  \/ ReqFindAll
  \/ ReqFindByNumber
  \/ ReqFindSurahByJuz
  \/ ReqFindSurahTafsirByJuz
  \/ ReqSurahFindByNumber
  \/ ReqDoaFindByApiId
  \/ ReqEnd

ApiSpec == ApiInit /\ [][ApiNext]_vars

(***************************************************************************)
(* Specification of the import jobs alone: runs of the chapter, commentary *)
(* and prayer imports in any order and any number, against an upstream     *)
(* whose texts change between fetches                                      *)
(***************************************************************************)

ImportInit ==
  /\ callSurah = START_NUMBER
  /\ callVerse = 1
  /\ juzOut = 0
  /\ viaDefault = FALSE
  /\ juzListOut = << >>
  /\ surahs = {}
  /\ verses = {}
  /\ seedPc = "idle"
  /\ seedNumber = START_NUMBER
  /\ seedIdx = 1
  /\ req = [op |-> "none"]
  /\ resp = [null |-> TRUE]
  /\ httpStatus = 0
  /\ upstream = VaryingUpstream
  /\ storage = SoundStorage
  /\ tafsirs = {}
  /\ doas = {}
  /\ analyticsHits = 0
  /\ AuxIdle

ImportNext ==
  \/ SeedStart
  \/ SeedFetch
  \/ SeedSurahRow
  \/ SeedAyat
  \/ SeedTafsirStart
  \/ SeedTafsirFetch
  \/ SeedTafsirForSurah
  \/ SeedDoaStart
  \/ SeedDoa

ImportSpec == ImportInit /\ [][ImportNext]_vars


\* the list endpoints, over a store that is empty or completely imported, an
\* upstream that serves chapter 2 and the prayers, with faults
ListInit ==
  /\ callSurah = START_NUMBER
  /\ callVerse = 1
  /\ juzOut = 0
  /\ viaDefault = FALSE
  /\ juzListOut = << >>
  /\ \/ surahs = {} /\ verses = {}
     \/ surahs = ImportedSurahs /\ verses = ImportedVerses
  /\ seedPc = "idle"
  /\ seedNumber = START_NUMBER
  /\ seedIdx = 1
  /\ req = [op |-> "none"]
  /\ resp = [null |-> TRUE]
  /\ httpStatus = 0
  /\ upstream = SmallUpstream
  /\ storage = SoundStorage
  /\ tafsirs = {}
  /\ doas = {}
  /\ analyticsHits = 0
  /\ AuxIdle

ListNext ==
  \/ SeedStart
  \/ SeedFetch
  \/ SeedSurahRow
  \/ SeedAyat
  \/ SeedDoaStart
  \/ SeedDoa
  \/ ReqSurahFindAll
  \/ ReqDoaFindAll
  \/ ReqEnd

ListSpec == ListInit /\ [][ListNext]_vars


\* the juz routes with their validation, over the stores an import of
\* chapter 2 and its commentary leaves
RouteInit ==
  /\ callSurah = START_NUMBER
  /\ callVerse = 1
  /\ juzOut = 0
  /\ viaDefault = FALSE
  /\ juzListOut = << >>
  /\ surahs = {}
  /\ verses = {}
  /\ seedPc = "idle"
  /\ seedNumber = START_NUMBER
  /\ seedIdx = 1
  /\ req = [op |-> "none"]
  /\ resp = [null |-> TRUE]
  /\ httpStatus = 0
  /\ upstream = SmallUpstream
  /\ storage = SoundStorage
  /\ tafsirs = {}
  /\ doas = {}
  /\ analyticsHits = 0
  /\ AuxIdle

RouteNext ==
  \/ SeedStart
  \/ SeedFetch
  \/ SeedSurahRow
  \/ SeedAyat
  \/ SeedTafsirStart
  \/ SeedTafsirFetch
  \/ SeedTafsirForSurah
  \/ RouteFindByNumber
  \/ RouteFindSurahByJuz
  \/ RouteFindSurahTafsirByJuz
  \/ ReqEnd

RouteSpec == RouteInit /\ [][RouteNext]_vars


\* calls of the fetch functions, one after the other
FetchInit ==
  /\ callSurah = START_NUMBER
  /\ callVerse = 1
  /\ juzOut = 0
  /\ viaDefault = FALSE
  /\ juzListOut = << >>
  /\ surahs = {}
  /\ verses = {}
  /\ seedPc = "idle"
  /\ seedNumber = START_NUMBER
  /\ seedIdx = 1
  /\ req = [op |-> "none"]
  /\ resp = [null |-> TRUE]
  /\ httpStatus = 0
  /\ upstream = SmallUpstream
  /\ storage = SoundStorage
  /\ tafsirs = {}
  /\ doas = {}
  /\ analyticsHits = 0
  /\ AuxIdle

FetchNext ==
  \/ FetchCall
  \/ FetchAttempt
  \/ FetchReturn

\* every attempt settles (the fetch promise resolves or rejects, the retry
\* delay elapses) and the caller resumes
FetchSpec == FetchInit /\ [][FetchNext]_vars /\ WF_vars(FetchAttempt) /\ WF_vars(FetchReturn)


\* the trackHit calls of up to MaxTrackers replies, interleaved
TrackInit ==
  /\ callSurah = START_NUMBER
  /\ callVerse = 1
  /\ juzOut = 0
  /\ viaDefault = FALSE
  /\ juzListOut = << >>
  /\ surahs = {}
  /\ verses = {}
  /\ seedPc = "idle"
  /\ seedNumber = START_NUMBER
  /\ seedIdx = 1
  /\ req = [op |-> "none"]
  /\ resp = [null |-> TRUE]
  /\ httpStatus = 0
  /\ upstream = SmallUpstream
  /\ storage = SoundStorage
  /\ tafsirs = {}
  /\ doas = {}
  /\ analyticsHits = 0
  /\ AuxIdle

TrackNext ==
  \/ HookOnResponse
  \/ AnalyticsUpsert
  \/ AnalyticsWrite
  \/ DailyStatsUpsert
  \/ DailyStatsWrite

TrackSpec == TrackInit /\ [][TrackNext]_vars


\* findSurahByJuz calls beside import runs over chapters 1 and 2
ConcurrentInit ==
  /\ callSurah = START_NUMBER
  /\ callVerse = 1
  /\ juzOut = 0
  /\ viaDefault = FALSE
  /\ juzListOut = << >>
  /\ surahs = {}
  /\ verses = {}
  /\ seedPc = "idle"
  /\ seedNumber = START_NUMBER
  /\ seedIdx = 1
  /\ req = [op |-> "none"]
  /\ resp = [null |-> TRUE]
  /\ httpStatus = 0
  /\ upstream = PairUpstream
  /\ storage = SoundStorage
  /\ tafsirs = {}
  /\ doas = {}
  /\ analyticsHits = 0
  /\ AuxIdle

ConcurrentNext ==
  \/ SeedStart
  \/ SeedFetch
  \/ SeedSurahRow
  \/ SeedAyat
  \/ ReaderCall
  \/ ReaderSurah
  \/ ReaderVerses
  \/ ReaderGroups
  \/ ReaderPrev
  \/ ReaderPrevRow
  \/ ReaderNext
  \/ ReaderNextRow
  \/ ReaderReturn

ConcurrentSpec == ConcurrentInit /\ [][ConcurrentNext]_vars

(***************************************************************************)
(* Properties of the resolver                                              *)
(***************************************************************************)

\* canonical order of verse addresses: chapter, then verse
LexLeq(c1, v1, c2, v2) == c1 < c2 \/ (c1 = c2 /\ v1 <= v2)

\* row r of the table holds (c, v): start <= (c, v) <= end in canonical order
Holds(r, c, v) ==
  /\ LexLeq(r.start.surah, r.start.verse, c, v)
  /\ LexLeq(c, v, r.end.surah, r.end.verse)

\* the rows of the table numbered j
RowsOf(j) == {i \in 1 .. Len(juzMapping) : juzMapping[i].juz = j}

\* the verse address that follows (c, v) in the corpus
Succ(c, v) == IF v < VerseCount[c] THEN << c, v + 1 >> ELSE << c + 1, 1 >>

\* getJuzByVerse tabulated over the corpus: JuzOfVerse[c][v]
JuzOfVerse ==
  [c \in START_NUMBER .. MAX_NUMBER |->
     [v \in 1 .. VerseCount[c] |-> getJuzByVerse(c, v)]]

\* C1 (coverage): for every valid (chapter, verse), getJuzByVerse returns a
\* number j in 1..30 whose row holds the verse, exactly one row holds it, and
\* the value never comes from the 'return 1' after the loop.
C1_Coverage ==
  juzOut # 0 =>
    /\ juzOut \in 1 .. 30
    /\ \E i \in RowsOf(juzOut) : Holds(juzMapping[i], callSurah, callVerse)
    /\ Cardinality({i \in 1 .. Len(juzMapping) :
                      Holds(juzMapping[i], callSurah, callVerse)}) = 1
    /\ ~viaDefault

\* a verse that starts a juz in the middle of a chapter has been resolved
C1_Witness == callSurah = 2 /\ callVerse = 142 /\ juzOut = 2 /\ ~viaDefault

\* the constant part of C2: 30 rows numbered 1..30 in order, first start
\* (1,1), last end (114,6), start <= end, each start the successor of the
\* previous end
TableShape ==
  /\ Len(juzMapping) = 30
  /\ \A i \in 1 .. Len(juzMapping) : juzMapping[i].juz = i
  /\ juzMapping[1].start = [surah |-> 1, verse |-> 1]
  /\ juzMapping[Len(juzMapping)].end = [surah |-> 114, verse |-> 6]
  /\ \A i \in 1 .. Len(juzMapping) :
       /\ juzMapping[i].start.surah \in 1 .. MAX_NUMBER
       /\ juzMapping[i].end.surah \in 1 .. MAX_NUMBER
       /\ juzMapping[i].start.verse \in 1 .. VerseCount[juzMapping[i].start.surah]
       /\ juzMapping[i].end.verse \in 1 .. VerseCount[juzMapping[i].end.surah]
       /\ LexLeq(juzMapping[i].start.surah, juzMapping[i].start.verse,
                 juzMapping[i].end.surah, juzMapping[i].end.verse)
  /\ \A i \in 2 .. Len(juzMapping) :
       << juzMapping[i].start.surah, juzMapping[i].start.verse >>
         = Succ(juzMapping[i - 1].end.surah, juzMapping[i - 1].end.verse)

\* C2 (table invariant): juzMapping has 30 rows numbered 1..30 ascending, from
\* (1,1) to (114,6), every start <= end, every start the canonical successor
\* of the previous end; so every verse address of the corpus lies in exactly
\* one row.
C2_TableContiguous ==
  /\ TableShape
  /\ Cardinality({i \in 1 .. Len(juzMapping) :
                    Holds(juzMapping[i], callSurah, callVerse)}) = 1

\* the last verse of a chapter that ends a juz has been resolved
C2_Witness == callSurah = 14 /\ callVerse = 52 /\ juzOut = 13

\* C3 (monotonicity): if (c1, v1) precedes or equals (c2, v2) in canonical
\* order then getJuzByVerse(c1, v1) <= getJuzByVerse(c2, v2).
C3_Monotonic ==
  juzOut # 0 =>
    \A c2 \in START_NUMBER .. MAX_NUMBER : \A v2 \in 1 .. VerseCount[c2] :
      LexLeq(callSurah, callVerse, c2, v2) => juzOut <= JuzOfVerse[c2][v2]

\* a verse of a later juz has been resolved (every verse of juz 1..14 precedes it)
C3_Witness == callSurah = 17 /\ callVerse = 1 /\ juzOut = 15

\* C4 (boundary exactness): the start and the end of row j resolve to j, and
\* the verse just before the start of row j >= 2 resolves to j - 1.
C4_Boundaries ==
  juzOut # 0 =>
    \A i \in 1 .. Len(juzMapping) :
      /\ (callSurah = juzMapping[i].start.surah /\ callVerse = juzMapping[i].start.verse)
           => juzOut = juzMapping[i].juz
      /\ (callSurah = juzMapping[i].end.surah /\ callVerse = juzMapping[i].end.verse)
           => juzOut = juzMapping[i].juz
      /\ (/\ juzMapping[i].juz >= 2
          /\ Succ(callSurah, callVerse)
               = << juzMapping[i].start.surah, juzMapping[i].start.verse >>)
           => juzOut = juzMapping[i].juz - 1

\* the verse just before the start of juz 6 has been resolved
C4_Witness == callSurah = 4 /\ callVerse = 147 /\ juzOut = 5

\* the members of a sequence

\* C5 (chapter span exactness): getJuzListBySurah(c, verse count of c) holds
\* exactly the juz of the verses of c.
C5_SpanExact ==
  juzListOut # << >> =>
    Range(juzListOut) = {JuzOfVerse[callSurah][v] : v \in 1 .. VerseCount[callSurah]}

\* the list of a chapter that spans three juz has been computed
C5_Witness == callSurah = 2 /\ juzListOut = << 1, 2, 3 >>

\* C6 (chapter span shape): the list is strictly ascending and is the range
\* getJuzByVerse(c, 1) .. getJuzByVerse(c, n); [1] for chapter 1 and
\* [1, 2, 3] for chapter 2.
C6_SpanShape ==
  juzListOut # << >> =>
    LET lo == JuzOfVerse[callSurah][1]
        hi == JuzOfVerse[callSurah][VerseCount[callSurah]]
    IN /\ \A i \in 1 .. Len(juzListOut) - 1 : juzListOut[i] < juzListOut[i + 1]
       /\ juzListOut = [i \in 1 .. (hi - lo + 1) |-> lo + i - 1]
       /\ callSurah = 1 => juzListOut = << 1 >>
       /\ callSurah = 2 => juzListOut = << 1, 2, 3 >>

\* the list of another chapter that spans three juz has been computed
C6_Witness == callSurah = 4 /\ juzListOut = << 4, 5, 6 >>

(***************************************************************************)
(* Properties of the juz service                                           *)
(***************************************************************************)

\* the chapters that have stored verses tagged juz j
ChaptersTagged(j) == {v.surahNumber : v \in {w \in verses : w.juz = j}}

Max(S) == CHOOSE m \in S : \A x \in S : x <= m
Min(S) == CHOOSE m \in S : \A x \in S : m <= x

\* C7 (partition detail adjacency): in every store state findByNumber(n),
\* n in 1..30, returns start and end of juzMapping[n], prevInfo null for
\* n = 1 and {number: n - 1} otherwise, nextInfo null for n = 30 and
\* {number: n + 1} otherwise.
C7_Adjacency ==
  req.op = "findByNumber" =>
    /\ ~resp.null
    /\ resp.start = juzMapping[req.number].start
    /\ resp.end = juzMapping[req.number].end
    /\ resp.prevInfo = IF req.number = 1 THEN {} ELSE {[number |-> req.number - 1]}
    /\ resp.nextInfo = IF req.number = 30 THEN {} ELSE {[number |-> req.number + 1]}

\* the detail of the last juz has been served from a store that holds verses
C7_Witness ==
  /\ req.op = "findByNumber" /\ req.number = 30
  /\ resp.nextInfo = {} /\ resp.prevInfo = {[number |-> 29]}
  /\ verses # {}

\* C8 (previous navigation target): when findSurahByJuz(j, c, q) returns a
\* result: if c is not the first chapter with stored verses tagged j, prevInfo
\* is {juz: j, surah: the chapter just before c among them}; otherwise, if
\* j > 1, it is {juz: j - 1, surah: the greatest chapter with stored verses
\* tagged j - 1}, or null when there is none; otherwise it is null.
C8_PrevTarget ==
  (req.op = "findSurahByJuz" /\ ~resp.null) =>
    LET j == req.number
        c == req.surahNumber
        L == ChaptersTagged(j)
    IN IF c # Min(L)
       THEN resp.prevInfo = {[juz |-> j, surah |-> Max({x \in L : x < c})]}
       ELSE IF j > 1
            THEN resp.prevInfo =
                   IF ChaptersTagged(j - 1) = {} THEN {}
                   ELSE {[juz |-> j - 1, surah |-> Max(ChaptersTagged(j - 1))]}
            ELSE resp.prevInfo = {}

\* chapter 2 under juz 2 has been served with the previous juz holding two
\* chapters: the target is the greater one
C8_Witness ==
  /\ req.op = "findSurahByJuz" /\ req.number = 2 /\ req.surahNumber = 2
  /\ ~resp.null
  /\ ChaptersTagged(1) = {1, 2}
  /\ resp.prevInfo = {[juz |-> 1, surah |-> 2]}

\* C9 (next navigation target): when findSurahByJuz(j, c, q) returns a result:
\* if c is not the last chapter with stored verses tagged j, nextInfo is
\* {juz: j, surah: the chapter just after c among them}; otherwise, if j < 30,
\* it is {juz: j + 1, surah: the smallest chapter with stored verses tagged
\* j + 1}, or null when there is none; otherwise it is null.
C9_NextTarget ==
  (req.op = "findSurahByJuz" /\ ~resp.null) =>
    LET j == req.number
        c == req.surahNumber
        L == ChaptersTagged(j)
    IN IF c # Max(L)
       THEN resp.nextInfo = {[juz |-> j, surah |-> Min({x \in L : x > c})]}
       ELSE IF j < 30
            THEN resp.nextInfo =
                   IF ChaptersTagged(j + 1) = {} THEN {}
                   ELSE {[juz |-> j + 1, surah |-> Min(ChaptersTagged(j + 1))]}
            ELSE resp.nextInfo = {}

\* chapter 1 has been served as the last chapter stored under juz 1: the
\* target is the first chapter of juz 2
C9_Witness ==
  /\ req.op = "findSurahByJuz" /\ req.number = 1 /\ req.surahNumber = 1
  /\ ~resp.null
  /\ ChaptersTagged(1) = {1}
  /\ resp.nextInfo = {[juz |-> 2, surah |-> 2]}

\* C10 (navigation symmetry): in a fixed store, if findSurahByJuz(j, X) returns
\* nextInfo {juz: j', surah: Y} then findSurahByJuz(j', Y) without a filter
\* returns a result whose prevInfo is {juz: j, surah: X}, and the same with
\* prevInfo and nextInfo exchanged.
C10_NavSymmetry ==
  (req.op = "findSurahByJuz" /\ ~resp.null) =>
    LET here == [juz |-> req.number, surah |-> req.surahNumber]
    IN /\ \A n \in resp.nextInfo :
            LET back == findSurahByJuz(n.juz, n.surah, NoFilter)
            IN ~back.null /\ back.prevInfo = {here}
       /\ \A n \in resp.prevInfo :
            LET back == findSurahByJuz(n.juz, n.surah, NoFilter)
            IN ~back.null /\ back.nextInfo = {here}

\* chapter 2 has been served under juz 1 and its next target is the same
\* chapter under juz 2
C10_Witness ==
  /\ req.op = "findSurahByJuz" /\ req.number = 1 /\ req.surahNumber = 2
  /\ ~resp.null
  /\ resp.nextInfo = {[juz |-> 2, surah |-> 2]}

\* the store holds every chapter and every verse of the corpus
FullyImported ==
  /\ {s.number : s \in surahs} = START_NUMBER .. MAX_NUMBER
  /\ {<< v.surahNumber, v.number >> : v \in verses} = ValidPairs

\* C11 (terminal navigation cases): findSurahByJuz returns prevInfo null for
\* the first chapter present in juz 1 and nextInfo null for the last chapter
\* present in juz 30; in a fully imported store no other (juz, chapter) has a
\* null prevInfo, and no other has a null nextInfo.
C11_Terminal ==
  (req.op = "findSurahByJuz" /\ ~resp.null) =>
    LET firstOfAll == req.number = 1 /\ req.surahNumber = Min(ChaptersTagged(1))
        lastOfAll == req.number = 30 /\ req.surahNumber = Max(ChaptersTagged(30))
    IN /\ firstOfAll => resp.prevInfo = {}
       /\ lastOfAll => resp.nextInfo = {}
       /\ FullyImported => /\ resp.prevInfo = {} => firstOfAll
                           /\ resp.nextInfo = {} => lastOfAll

\* the last chapter has been served under juz 30 from the fully imported store
C11_Witness ==
  /\ req.op = "findSurahByJuz" /\ req.number = 30 /\ req.surahNumber = 114
  /\ ~resp.null
  /\ FullyImported
  /\ resp.nextInfo = {}
  /\ resp.prevInfo = {[juz |-> 30, surah |-> 113]}

\* the stored verse numbers of chapter c tagged juz j
TaggedNumbers(j, c) == {v.number : v \in {w \in verses : w.surahNumber = c /\ w.juz = j}}

\* the numbers among S that lie in the sub-range q, a given bound being applied
\* whatever its value
InSubRange(S, q) ==
  {n \in S : /\ q.fromVerse.has => n >= q.fromVerse.val
             /\ q.toVerse.has => n <= q.toVerse.val}

\* C13 (sub-range on a valid combination is not Not-found): when chapter c has
\* stored verses tagged juz j and the sub-range matches none of them,
\* findSurahByJuz answers with a result whose verses list is empty, and the
\* response is not the 404 one.
C13_EmptyNotNull ==
  (/\ req.op = "findSurahByJuz"
   /\ TaggedNumbers(req.number, req.surahNumber) # {}
   /\ InSubRange(TaggedNumbers(req.number, req.surahNumber), req.query) = {})
  => /\ ~resp.null
     /\ resp.verses = << >>
     /\ httpStatus = 200

\* C14 (sub-range intersection): whenever findSurahByJuz returns a result, its
\* verses are exactly the stored verses of the chapter tagged with the juz
\* whose number is >= fromVerse (if given) and <= toVerse (if given),
\* ascending.
C14_Intersection ==
  (req.op = "findSurahByJuz" /\ ~resp.null)
  => resp.verses =
       SortAsc(InSubRange(TaggedNumbers(req.number, req.surahNumber), req.query))

\* the numbers a call filters by its sub-range: the stored verses of the
\* chapter (SurahService.findByNumber), those tagged with the juz
\* (findSurahByJuz), the commentaries of those (findSurahTafsirByJuz)
Candidates(r) ==
  IF r.op = "surahFindByNumber"
  THEN {v.number : v \in {w \in verses : w.surahNumber = r.number}}
  ELSE IF r.op = "findSurahByJuz"
  THEN TaggedNumbers(r.number, r.surahNumber)
  ELSE {t.verseNumber : t \in {u \in tafsirs :
          /\ u.surahNumber = r.surahNumber
          /\ u.verseNumber \in TaggedNumbers(r.number, r.surahNumber)}}

\* C15 (single-bound filter): in the result of findSurahByJuz,
\* findSurahTafsirByJuz and SurahService.findByNumber a supplied bound is
\* applied whatever schema-accepted value it has, and when only one bound is
\* supplied the other side is unconstrained.
C15_BoundApplied ==
  (/\ req.op \in {"findSurahByJuz", "findSurahTafsirByJuz", "surahFindByNumber"}
   /\ httpStatus = 200)
  => LET q == req.query
         all == Candidates(req)
         got == IF req.op = "findSurahTafsirByJuz"
                THEN Range(resp.tafsir) ELSE Range(resp.verses)
     IN /\ q.fromVerse.has => \A n \in got : n >= q.fromVerse.val
        /\ q.toVerse.has => \A n \in got : n <= q.toVerse.val
        /\ (q.fromVerse.has /\ ~q.toVerse.has)
             => \A n \in all : n >= q.fromVerse.val => n \in got
        /\ (q.toVerse.has /\ ~q.fromVerse.has)
             => \A n \in all : n <= q.toVerse.val => n \in got

\* C17 (stored partition consistency): after any sequence of import steps,
\* failed fetches and failed inserts included, the row of juzMapping numbered
\* by a stored verse's juz holds the verse, and no step of the import or of a
\* request removes a stored verse or changes the juz stored for it.
C17_StoredConsistency ==
  /\ [](\A v \in verses :
          /\ RowsOf(v.juz) # {}
          /\ \A i \in RowsOf(v.juz) : Holds(juzMapping[i], v.surahNumber, v.number))
  /\ [][\A v \in verses :
          /\ v \in verses'
          /\ \A w \in verses' :
               (w.surahNumber = v.surahNumber /\ w.number = v.number) => w.juz = v.juz]_vars

\* a second run of the import meets a verse that is already stored, in a
\* chapter whose stored verses carry different juz tags
C17_Witness ==
  /\ seedPc = "ayat"
  /\ \E v \in verses :
       /\ v.surahNumber = seedNumber
       /\ v.number = Ayat(seedNumber)[seedIdx]
       /\ \E w \in verses : w.surahNumber = seedNumber /\ w.juz # v.juz

\* C19 (storage-dependent partition contents): findByNumber(n) lists exactly
\* the chapters with stored verses tagged n, ascending, each with versesInJuz
\* start / end the least / greatest stored verse number under the tag and
\* totalVersesInJuz their count; totalVerses is the number of stored verses
\* tagged n.
C19_StoredContents ==
  (req.op = "findByNumber" /\ ~resp.null) =>
    LET n == req.number
        listed == [i \in 1 .. Len(resp.surahs) |-> resp.surahs[i].number]
    IN /\ listed = SortAsc(ChaptersTagged(n))
       /\ \A i \in 1 .. Len(resp.surahs) :
            LET e == resp.surahs[i]
                nums == TaggedNumbers(n, e.number)
            IN /\ e.versesInJuz.start = Min(nums)
               /\ e.versesInJuz.end = Max(nums)
               /\ e.totalVersesInJuz = Cardinality(nums)
       /\ resp.totalVerses = Cardinality({v \in verses : v.juz = n})

\* juz 1 has been listed from a store holding two of its chapters, one of
\* them continuing into later juz
C19_Witness ==
  /\ req.op = "findByNumber" /\ req.number = 1
  /\ ~resp.null
  /\ Len(resp.surahs) = 2
  /\ resp.totalVerses >= 3
  /\ \E v \in verses : v.surahNumber = 2 /\ v.juz > 1

\* C20 (chapter verse-count invariant): when no import run is under way,
\* every stored chapter's verseCount equals the number of stored verses of
\* that chapter.
C20_VerseCount ==
  seedPc = "idle" =>
    \A s \in surahs :
      s.verseCount = Cardinality({v \in verses : v.surahNumber = s.number})

(***************************************************************************)
(* Properties of the request path                                          *)
(***************************************************************************)

\* C12 (not-found on invalid combination): when the store holds no verse of
\* chapter c tagged juz j, findSurahByJuz(j, c, q) and
\* findSurahTafsirByJuz(j, c, q) return null for every sub-range q and the
\* reply is the 404 one; no result with empty or default navigation is
\* returned.
C12_NotFound ==
  (/\ req.op \in {"findSurahByJuz", "findSurahTafsirByJuz"}
   /\ req.failAt = 0
   /\ TaggedNumbers(req.number, req.surahNumber) = {})
  => /\ resp = [null |-> TRUE]
     /\ httpStatus = 404

\* the commentary of a stored chapter has been asked for under a juz none of
\* its stored verses is tagged with, with a sub-range
C12_Witness ==
  /\ req.op = "findSurahTafsirByJuz"
  /\ req.failAt = 0
  /\ req.query # NoFilter
  /\ \E v \in verses : v.surahNumber = req.surahNumber
  /\ \E t \in tafsirs : t.surahNumber = req.surahNumber
  /\ TaggedNumbers(req.number, req.surahNumber) = {}
  /\ httpStatus = 404

JuzOps == {"findAll", "findByNumber", "findSurahByJuz", "findSurahTafsirByJuz"}

\* C16 (storage failure is not masked): when a storage read issued by
\* JuzService.findAll, findByNumber, findSurahByJuz or findSurahTafsirByJuz
\* fails, the reply is the 500 error one and carries no service result: not
\* a success, not the 404.
C16_FailureIs500 ==
  (req.op \in JuzOps /\ req.failAt # 0)
  => /\ httpStatus = 500
     /\ resp = Threw

\* the last navigation lookup of findSurahByJuz has failed, after the
\* chapter, its verses and the chapter list of the juz were read
C16_Witness ==
  /\ req.op = "findSurahByJuz"
  /\ req.failAt >= 5
  /\ req.failAt = ReadsOfFindSurahByJuz(req.number, req.surahNumber, req.query)
  /\ ~findSurahByJuz(req.number, req.surahNumber, req.query).null
  /\ httpStatus = 500

C23_PrayerUnique ==
  /\ [](\A d1, d2 \in doas :
          (d1.apiId = d2.apiId \/ d1.content = d2.content) => d1 = d2)
  /\ [][\A d \in doas : d \in doas']_vars

\* a later run meets a stored prayer again, in a store holding two prayers
C23_Witness ==
  /\ seedPc = "doa"
  /\ Cardinality(doas) = 2
  /\ \E d \in doas : d.apiId = seedNumber /\ d.content # DoaContent[seedNumber]

\* C24 (import idempotence): no step of seedSurah removes a chapter or verse
\* row or changes an attribute of one, and every row it adds has a key
\* (number; surahNumber and number) that no stored row had: a run over a
\* store that holds a chapter and its verses adds nothing for it.
C24_Idempotent ==
  [][/\ \A s \in surahs : s \in surahs'
     /\ \A v \in verses : v \in verses'
     /\ \A n \in surahs' \ surahs : ~ \E s \in surahs : s.number = n.number
     /\ \A n \in verses' \ verses :
          ~ \E v \in verses : v.surahNumber = n.surahNumber /\ v.number = n.number]_vars

\* a later run has reached the last ayat of a chapter whose row and payload
\* verses are all stored, some with a text the upstream served earlier
C24_Witness ==
  /\ seedPc = "ayat"
  /\ seedIdx = Len(Ayat(seedNumber))
  /\ \E s \in surahs : s.number = seedNumber /\ s.name = "y"
  /\ \A i \in 1 .. Len(Ayat(seedNumber)) :
       \E v \in verses : v.surahNumber = seedNumber /\ v.number = Ayat(seedNumber)[i]
  /\ \E v \in verses : v.text = "y"

\* C28 (verse and commentary lookups agree): in every store state and for
\* every (juz, chapter, sub-range), findSurahTafsirByJuz returns null exactly
\* when findSurahByJuz does, and else the same prevInfo and nextInfo; its
\* tafsir list holds only verse numbers that findSurahByJuz returns for the
\* input, in ascending order.
C28_LookupsAgree ==
  (req.op = "findSurahTafsirByJuz" /\ req.failAt = 0) =>
    LET byVerse == findSurahByJuz(req.number, req.surahNumber, req.query)
    IN /\ resp.null = byVerse.null
       /\ ~resp.null =>
            /\ resp.prevInfo = byVerse.prevInfo
            /\ resp.nextInfo = byVerse.nextInfo
            /\ Range(resp.tafsir) \subseteq Range(byVerse.verses)
            /\ \A i \in 1 .. (Len(resp.tafsir) - 1) : resp.tafsir[i] < resp.tafsir[i + 1]

\* the commentary of a chapter has been served under a juz with a sub-range,
\* while the chapter has commentary under another juz and a stored verse of
\* the answer has none
C28_Witness ==
  /\ req.op = "findSurahTafsirByJuz"
  /\ req.failAt = 0
  /\ req.query # NoFilter
  /\ ~resp.null
  /\ Len(resp.tafsir) >= 1
  /\ \E t \in tafsirs :
       /\ t.surahNumber = req.surahNumber
       /\ t.verseNumber \notin TaggedNumbers(req.number, req.surahNumber)
  /\ Len(findSurahByJuz(req.number, req.surahNumber, req.query).verses) > Len(resp.tafsir)

\* ---------------------------------------------------------------------------
\* Properties of the list endpoints
\* ---------------------------------------------------------------------------

\* the verse numbers stored for a chapter
StoredNumbers(c) == {v.number : v \in {w \in verses : w.surahNumber = c}}

\* C21 (chapter listing annotation): the juz list SurahService.findAll
\* attaches to a chapter is ascending and duplicate-free in every store
\* state, and where every verse of the chapter is stored it equals
\* getJuzListBySurah(chapter, verseCount).
C21_Annotation ==
  (req.op = "surahFindAll" /\ req.failAt = 0) =>
    \A i \in 1 .. Len(resp.data) :
      LET row == resp.data[i]
      IN /\ \A k \in 1 .. (Len(row.juz) - 1) : row.juz[k] < row.juz[k + 1]
         /\ StoredNumbers(row.number) = 1 .. VerseCount[row.number] =>
              row.juz = getJuzListBySurah(row.number, row.verseCount)

\* a listing has annotated a completely stored chapter that spans three juz
C21_Witness ==
  /\ req.op = "surahFindAll"
  /\ req.failAt = 0
  /\ \E i \in 1 .. Len(resp.data) :
       /\ Len(resp.data[i].juz) = 3
       /\ StoredNumbers(resp.data[i].number) = 1 .. VerseCount[resp.data[i].number]

\* C26 (pagination arithmetic): for page p >= 1 and limit l >= 1 over the
\* ordered result of totalItems rows, the list services return the rows at
\* positions (p-1)*l+1 .. min(p*l, totalItems), none past the last page, with
\* totalPages = ceil(totalItems / l), hasNextPage = (p < totalPages) and
\* hasPrevPage = (p > 1).
C26_Pagination ==
  (req.op \in {"surahFindAll", "doaFindAll"} /\ req.failAt = 0) =>
    LET p == IF req.query.page.has THEN req.query.page.val ELSE 1
        l == IF req.query.limit.has THEN req.query.limit.val
             ELSE IF req.op = "surahFindAll" THEN 114 ELSE 20
        ordered == IF req.op = "surahFindAll"
                   THEN SortAsc({s.number : s \in surahs})
                   ELSE SortAsc({d.apiId : d \in doas})
        key(row) == IF req.op = "surahFindAll" THEN row.number ELSE row.apiId
        totalItems == Len(ordered)
        first == (p - 1) * l + 1
        last == Min({p * l, totalItems})
        pages == resp.meta.totalPages
    IN /\ Len(resp.data) = Max({0, last - first + 1})
       /\ \A i \in 1 .. Len(resp.data) : key(resp.data[i]) = ordered[first + i - 1]
       /\ pages * l >= totalItems
       /\ pages > 0 => (pages - 1) * l < totalItems
       /\ pages >= 0
       /\ resp.meta.hasNextPage = (p < pages)
       /\ resp.meta.hasPrevPage = (p > 1)

\* the last, partly filled page of the 114 chapters has been served at 50
\* rows a page
C26_Witness ==
  /\ req.op = "surahFindAll"
  /\ req.failAt = 0
  /\ req.query = [page |-> Given(3), limit |-> Given(50)]
  /\ Len(resp.data) = 14
  /\ resp.data[1].number = 101
  /\ resp.meta.totalPages = 3
  /\ ~resp.meta.hasNextPage
  /\ resp.meta.hasPrevPage

\* ---------------------------------------------------------------------------
\* Properties of the juz routes
\* ---------------------------------------------------------------------------

RouteOps == {"routeFindByNumber", "routeFindSurahByJuz", "routeFindSurahTafsirByJuz"}

\* the request's juz is no integer in 1..30, or its chapter no integer in
\* 1..114
DomainInvalid ==
  \/ ~(isInteger(req.params.number) /\ valueOf(req.params.number) \in 1 .. 30)
  \/ /\ req.op # "routeFindByNumber"
     /\ ~(/\ isInteger(req.params.surahNumber)
          /\ valueOf(req.params.surahNumber) \in START_NUMBER .. MAX_NUMBER)

\* C25 (domain-invalid input never succeeds): a juz request whose juz is no
\* integer in 1..30 or whose chapter is no integer in 1..114, the numbers
\* like 1.5 that pass the minimum and maximum included, is rejected by the
\* validation or answered with Not-found.
C25_RejectedOrNotFound ==
  (req.op \in RouteOps /\ DomainInvalid) => httpStatus \in {400, 404}

\* no domain-invalid juz request is answered with a success reply
C25_NeverSuccess ==
  (req.op \in RouteOps /\ DomainInvalid) => httpStatus # 200

\* ---------------------------------------------------------------------------
\* Properties of the upstream fetch
\* ---------------------------------------------------------------------------

FetchRunning == fetcher.fn # "none"
FetchSettled == fetcher.fn # "none" /\ fetcher.result # "pending"

\* what holds of a call at every moment: at most 1 + MAX_RETRIES attempts;
\* another attempt is due only after a throw; data is returned exactly by the
\* attempt that met it; a not-found body ends the call with null at once; a
\* throw ends it with null only as the fourth attempt
C29_Attempts ==
  FetchRunning =>
    /\ fetcher.attempts <= 1 + MAX_RETRIES
    /\ fetcher.attempts = (MAX_RETRIES - fetcher.retries)
                            + (IF fetcher.result = "pending" THEN 0 ELSE 1)
    /\ (fetcher.result = "pending" /\ fetcher.attempts > 0) => fetcher.last = "throw"
    /\ fetcher.last = "data" <=> fetcher.result = "data"
    /\ fetcher.last = "notFound" => fetcher.result = "null"
    /\ (fetcher.result = "null" /\ fetcher.last = "throw") =>
         fetcher.attempts = 1 + MAX_RETRIES

\* C29 (bounded fetch retry): a call of fetchSurahByNumber, fetchTafsirByNumber
\* or fetchDoaById ends after at most 1 + MAX_RETRIES = 4 attempts; it tries
\* again only after an attempt that threw, returns the payload of the first
\* attempt that meets data, returns null without another attempt on a
\* not-found body, and returns null after the fourth failed attempt.
C29_BoundedRetry ==
  /\ []C29_Attempts
  /\ FetchRunning ~> FetchSettled

\* a call has returned null after its fourth attempt threw
C29_Witness ==
  /\ FetchSettled
  /\ fetcher.result = "null"
  /\ fetcher.last = "throw"
  /\ fetcher.attempts = 4
  /\ fetcher.retries = 0

\* ---------------------------------------------------------------------------
\* Properties of the analytics hook
\* ---------------------------------------------------------------------------

\* every trackHit call issued so far has finished
TrackersFinished ==
  /\ Len(trackers) > 0
  /\ \A i \in 1 .. Len(trackers) : trackers[i].pc \in {"done", "failed"}

\* the number of trackHit calls issued for a key
CallsFor(endpoint, method) ==
  Cardinality({i \in 1 .. Len(trackers) :
                 trackers[i].endpoint = endpoint /\ trackers[i].method = method})

C30_OneRowReplyKept ==
  /\ [](\A r1, r2 \in analytics :
          (r1.endpoint = r2.endpoint /\ r1.method = r2.method) => r1 = r2)
  /\ [][/\ \A i \in 1 .. Len(trackers) : trackers'[i].sent = trackers[i].sent
        /\ UNCHANGED reqVars]_vars

\* ---------------------------------------------------------------------------
\* Properties of findSurahByJuz beside a running import
\* ---------------------------------------------------------------------------

\* C27 (consistency under concurrent import): with verse rows being inserted
\* between the reads of findSurahByJuz, a call that returns a result has found
\* the requested chapter in the chapter list of the juz (index not -1), its
\* prevInfo names no chapter of the same juz at or after the requested one
\* and its nextInfo none of the same juz at or before it.
C27_ChapterInList ==
  (reader.pc = "done" /\ ~reader.null) =>
    /\ reader.currentIndex # -1
    /\ reader.surahNumbers[reader.currentIndex + 1] = reader.surah
    /\ \A p \in reader.prevInfo : p.juz = reader.juz => p.surah < reader.surah
    /\ \A n \in reader.nextInfo : n.juz = reader.juz => n.surah > reader.surah

\* a call has returned a result while the import was inserting: the juz has
\* a chapter now that the call's read of the chapter list did not see
C27_Witness ==
  /\ reader.pc = "done"
  /\ ~reader.null
  /\ seedPc = "ayat"
  /\ reader.surahNumbers # SurahNumbersInJuz(reader.juz)

====
